---- MODULE Spec2Model ----
(***************************************************************************)
(* Virtual portfolio accounting of the modular paper trading engine.       *)
(*                                                                         *)
(* PaperTradingBot (paper_trading_bot.py): cash, positions, trade ledger,  *)
(* price refresh and the monthly roll.                                     *)
(* BaseStrategy and its variants (strategies/*.py): per-strategy cash and  *)
(* positions.                                                              *)
(*                                                                         *)
(* Money is fixed point: Scale units per rupee, so that the roll's factors *)
(* 0.95 and 1.1 are exact on whole-rupee prices.                           *)
(***************************************************************************)
EXTENDS Integers, Sequences, FiniteSets, TLC

\* ------------------------------------------------------------------ bounds

\* Steps of one run: operations invoked on the bot, and midnights.
MaxCalls == 4
\* The clock runs over days 0..MaxDay; day 0 is 2025-09-24.
MaxDay == 1

\* --------------------------------------------------------------- constants

\* 0.95 = 19/20 and 1.1 = 11/10: prices are kept in 1/200 rupee.
Scale == 20 * 10

Rupees(x) == x * Scale

Abs(x) == IF x < 0 THEN -x ELSE x

total_virtual_capital == Rupees(500000)

brokerage_per_lot == Rupees(20)

\* close_price = position.current_price * 0.95
Times095(p) == (p * 19) \div 20

\* new_price = close_price * 1.1
Times110(p) == (p * 11) \div 10

\* The position table of initialize_paper_strategy.
strategy_positions ==
  << [symbol |-> "NIFTY26MAR24600CE", strike |-> 24600, option_type |-> "CE",
      expiry |-> "2026-03-26", quantity |-> 25, entry_price |-> Rupees(1100)],
     [symbol |-> "NIFTY26MAR24600PE", strike |-> 24600, option_type |-> "PE",
      expiry |-> "2026-03-26", quantity |-> 25, entry_price |-> Rupees(980)],
     [symbol |-> "NIFTY25SEP24600CE", strike |-> 24600, option_type |-> "CE",
      expiry |-> "2025-09-26", quantity |-> -25, entry_price |-> Rupees(350)],
     [symbol |-> "NIFTY25SEP24600PE", strike |-> 24600, option_type |-> "PE",
      expiry |-> "2025-09-26", quantity |-> -25, entry_price |-> Rupees(320)],
     [symbol |-> "NIFTY26MAR26000CE", strike |-> 26000, option_type |-> "CE",
      expiry |-> "2026-03-26", quantity |-> 10, entry_price |-> Rupees(150)],
     [symbol |-> "NIFTY26MAR23000PE", strike |-> 23000, option_type |-> "PE",
      expiry |-> "2026-03-26", quantity |-> 10, entry_price |-> Rupees(180)] >>

\* ------------------------------------------------- the broker's instruments

\* An NFO instrument dump as get_instruments caches it: rows in feed order.
\* strike and option_type are what the search pattern reads off tradingsymbol.
NfoInstruments ==
  << [tradingsymbol |-> "NIFTY25SEP24600CE", instrument_token |-> 1001,
      strike |-> 24600, option_type |-> "CE"],
     [tradingsymbol |-> "NIFTY25SEP24600PE", instrument_token |-> 1002,
      strike |-> 24600, option_type |-> "PE"],
     [tradingsymbol |-> "NIFTY26MAR24600CE", instrument_token |-> 1003,
      strike |-> 24600, option_type |-> "CE"],
     [tradingsymbol |-> "NIFTY26MAR24600PE", instrument_token |-> 1004,
      strike |-> 24600, option_type |-> "PE"],
     [tradingsymbol |-> "NIFTY26MAR26000CE", instrument_token |-> 1005,
      strike |-> 26000, option_type |-> "CE"],
     [tradingsymbol |-> "NIFTY26MAR23000PE", instrument_token |-> 1006,
      strike |-> 23000, option_type |-> "PE"] >>

\* What one call of get_instruments can bring back: the dump, or an empty
\* frame when the request fails.
EmptyFrame == << >>
FetchOutcomes == { EmptyFrame, NfoInstruments }

\* get_instruments: a non-empty answer replaces the cache, a failure leaves it.
get_instruments(cache, fetched) ==
  IF fetched # EmptyFrame THEN fetched ELSE cache

\* The regex "NIFTY.*{strike}.*{option_type}" against a row's tradingsymbol.
PatternMatches(row, strike, option_type) ==
  row.strike = strike /\ row.option_type = option_type

\* search_instrument: the first matching row of the cached frame, or {}.
NoMatch == [found |-> FALSE]
search_instrument(cache, strike, option_type) ==
  LET hits == { i \in 1..Len(cache) : PatternMatches(cache[i], strike, option_type) }
  IN  IF hits = {} THEN NoMatch
      ELSE LET i == CHOOSE j \in hits : \A k \in hits : j <= k
           IN  [found |-> TRUE,
                instrument_token |-> cache[i].instrument_token,
                tradingsymbol |-> cache[i].tradingsymbol]

\* instrument_info.get(key, default)
InfoTradingsymbol(info, default) == IF info.found THEN info.tradingsymbol ELSE default
InfoToken(info) == IF info.found THEN info.instrument_token ELSE 0

\* ------------------------------------------------------------------- dates

\* datetime.date.today().isoformat(): dates are day numbers, day 0 being
\* 2025-09-24; exit_date's default "" is NoDate.
NoDate == -1

\* strptime(expiry, "%Y-%m-%d") as a day number; anything else fails to parse.
ParsableExpiries == { "2025-09-26", "2025-10-26", "2026-03-26" }
ExpiryDay(expiry) ==
  CASE expiry = "2025-09-26" -> 2
    [] expiry = "2025-10-26" -> 32
    [] expiry = "2026-03-26" -> 183

\* (expiry_date - datetime.now()).days: expiry_date is midnight, now carries
\* the time of day, and timedelta.days floors.
DaysToExpiry(expiry, day, after_midnight) ==
  ExpiryDay(expiry) - day - (IF after_midnight THEN 1 ELSE 0)

\* ------------------------------------------------------------------ Greeks

\* Fixed point: delta in 1e-4, gamma in 1e-6, theta and vega in 1e-2, as the
\* code rounds them.
ZeroGreeks == [delta |-> 0, gamma |-> 0, theta |-> 0, vega |-> 0]

\* The Black-Scholes terms at spot 24631, volatility 0.12, rate 0.07, by
\* <<strike, days to expiry>>: norm_cdf(d1), gamma, theta for CE and for PE,
\* vega, each rounded as the code rounds its result.
BlackScholesTerms ==
  <<23000, 1>> :> [cdf_d1 |-> 10000, gamma |-> 0, theta_ce |-> -441, theta_pe |-> 0, vega |-> 0] @@
  <<23000, 2>> :> [cdf_d1 |-> 10000, gamma |-> 0, theta_ce |-> -441, theta_pe |-> 0, vega |-> 0] @@
  <<23000, 29>> :> [cdf_d1 |-> 9863, gamma |-> 42, theta_ce |-> -482, theta_pe |-> -57, vega |-> 243] @@
  <<23000, 30>> :> [cdf_d1 |-> 9852, gamma |-> 44, theta_ce |-> -484, theta_pe |-> -60, vega |-> 264] @@
  <<23000, 31>> :> [cdf_d1 |-> 9841, gamma |-> 46, theta_ce |-> -486, theta_pe |-> -63, vega |-> 286] @@
  <<23000, 32>> :> [cdf_d1 |-> 9829, gamma |-> 48, theta_ce |-> -488, theta_pe |-> -66, vega |-> 308] @@
  <<23000, 179>> :> [cdf_d1 |-> 8972, gamma |-> 87, theta_ce |-> -479, theta_pe |-> -154, vega |-> 3089] @@
  <<23000, 180>> :> [cdf_d1 |-> 8970, gamma |-> 86, theta_ce |-> -479, theta_pe |-> -154, vega |-> 3101] @@
  <<23000, 181>> :> [cdf_d1 |-> 8968, gamma |-> 86, theta_ce |-> -479, theta_pe |-> -154, vega |-> 3114] @@
  <<23000, 182>> :> [cdf_d1 |-> 8967, gamma |-> 86, theta_ce |-> -478, theta_pe |-> -154, vega |-> 3126] @@
  <<23000, 183>> :> [cdf_d1 |-> 8965, gamma |-> 86, theta_ce |-> -478, theta_pe |-> -154, vega |-> 3138] @@
  <<24600, 1>> :> [cdf_d1 |-> 5926, gamma |-> 2509, theta_ce |-> -3281, theta_pe |-> -3196, vega |-> 500] @@
  <<24600, 2>> :> [cdf_d1 |-> 5751, gamma |-> 1791, theta_ce |-> -2413, theta_pe |-> -2345, vega |-> 714] @@
  <<24600, 29>> :> [cdf_d1 |-> 5865, gamma |-> 468, theta_ce |-> -828, theta_pe |-> -760, vega |-> 2704] @@
  <<24600, 30>> :> [cdf_d1 |-> 5875, gamma |-> 459, theta_ce |-> -819, theta_pe |-> -750, vega |-> 2749] @@
  <<24600, 31>> :> [cdf_d1 |-> 5884, gamma |-> 452, theta_ce |-> -810, theta_pe |-> -740, vega |-> 2793] @@
  <<24600, 32>> :> [cdf_d1 |-> 5894, gamma |-> 444, theta_ce |-> -802, theta_pe |-> -731, vega |-> 2836] @@
  <<24600, 179>> :> [cdf_d1 |-> 6792, gamma |-> 173, theta_ce |-> -503, theta_pe |-> -367, vega |-> 6175] @@
  <<24600, 180>> :> [cdf_d1 |-> 6797, gamma |-> 172, theta_ce |-> -502, theta_pe |-> -366, vega |-> 6188] @@
  <<24600, 181>> :> [cdf_d1 |-> 6801, gamma |-> 172, theta_ce |-> -501, theta_pe |-> -365, vega |-> 6202] @@
  <<24600, 182>> :> [cdf_d1 |-> 6805, gamma |-> 171, theta_ce |-> -501, theta_pe |-> -365, vega |-> 6216] @@
  <<24600, 183>> :> [cdf_d1 |-> 6809, gamma |-> 171, theta_ce |-> -500, theta_pe |-> -364, vega |-> 6229] @@
  <<26000, 1>> :> [cdf_d1 |-> 0, gamma |-> 0, theta_ce |-> 0, theta_pe |-> -499, vega |-> 0] @@
  <<26000, 2>> :> [cdf_d1 |-> 0, gamma |-> 0, theta_ce |-> 0, theta_pe |-> -498, vega |-> 0] @@
  <<26000, 29>> :> [cdf_d1 |-> 781, gamma |-> 175, theta_ce |-> -246, theta_pe |-> -669, vega |-> 1014] @@
  <<26000, 30>> :> [cdf_d1 |-> 826, gamma |-> 180, theta_ce |-> -253, theta_pe |-> -672, vega |-> 1075] @@
  <<26000, 31>> :> [cdf_d1 |-> 870, gamma |-> 184, theta_ce |-> -261, theta_pe |-> -675, vega |-> 1137] @@
  <<26000, 32>> :> [cdf_d1 |-> 915, gamma |-> 188, theta_ce |-> -267, theta_pe |-> -678, vega |-> 1198] @@
  <<26000, 179>> :> [cdf_d1 |-> 4234, gamma |-> 189, theta_ce |-> -415, theta_pe |-> -520, vega |-> 6754] @@
  <<26000, 180>> :> [cdf_d1 |-> 4246, gamma |-> 189, theta_ce |-> -415, theta_pe |-> -519, vega |-> 6777] @@
  <<26000, 181>> :> [cdf_d1 |-> 4258, gamma |-> 188, theta_ce |-> -415, theta_pe |-> -518, vega |-> 6800] @@
  <<26000, 182>> :> [cdf_d1 |-> 4270, gamma |-> 188, theta_ce |-> -415, theta_pe |-> -517, vega |-> 6822] @@
  <<26000, 183>> :> [cdf_d1 |-> 4282, gamma |-> 188, theta_ce |-> -415, theta_pe |-> -516, vega |-> 6845]

PricedSpot == 24631
PricedVix == 12

\* The arithmetic inside the try block raises on log of a non-positive
\* ratio and on division by zero.
PricingRaises(spot, strike, vix) ==
  spot <= 0 \/ strike <= 0 \/ vix = 0

\* Mutant of GreeksRaises: the pricing is attempted before the expiry test.
GreeksRaisesBeforeExpiry(spot, strike, expiry, vix, day, after_midnight) ==
  expiry \notin ParsableExpiries \/ PricingRaises(spot, strike, vix)

\* except Exception as e: logger.error("Error calculating Greeks") is
\* reached: strptime fails, or the option is unexpired and the pricing raises.
GreeksRaises(spot, strike, expiry, vix, day, after_midnight) ==
  \/ expiry \notin ParsableExpiries
  \/ /\ DaysToExpiry(expiry, day, after_midnight) > 0
     /\ PricingRaises(spot, strike, vix)

\* Mutant of calculate_option_greeks: the put's delta mirrors the call's.
calculate_option_greeks_put_mirrored(spot, strike, expiry, option_type, vix, day, after_midnight) ==
  IF expiry \notin ParsableExpiries THEN ZeroGreeks
  ELSE LET days == DaysToExpiry(expiry, day, after_midnight)
       IN  IF days <= 0 THEN ZeroGreeks
           ELSE IF PricingRaises(spot, strike, vix) THEN ZeroGreeks
           ELSE LET t == BlackScholesTerms[<<strike, days>>]
                IN  [delta |-> IF option_type = "CE" THEN t.cdf_d1 ELSE -t.cdf_d1,
                     gamma |-> t.gamma,
                     theta |-> IF option_type = "CE" THEN t.theta_ce ELSE t.theta_pe,
                     vega  |-> t.vega]

\* calculate_option_greeks; volatility is vix_level / 100.
calculate_option_greeks(spot, strike, expiry, option_type, vix, day, after_midnight) ==
  IF expiry \notin ParsableExpiries THEN ZeroGreeks
  ELSE LET days == DaysToExpiry(expiry, day, after_midnight)
       IN  IF days <= 0 THEN ZeroGreeks
           ELSE IF PricingRaises(spot, strike, vix) THEN ZeroGreeks
           ELSE LET t == BlackScholesTerms[<<strike, days>>]
                IN  [delta |-> IF option_type = "CE" THEN t.cdf_d1
                               ELSE t.cdf_d1 - 10000,
                     gamma |-> t.gamma,
                     theta |-> IF option_type = "CE" THEN t.theta_ce
                               ELSE t.theta_pe,
                     vega  |-> t.vega]

\* ------------------------------------------------------------------- state

VARIABLES
  available_cash,      \* PaperTradingBot.available_cash
  invested_amount,     \* PaperTradingBot.invested_amount
  trade_counter,       \* PaperTradingBot.trade_counter
  virtual_positions,   \* PaperTradingBot.virtual_positions
  trade_ledger,        \* PaperTradingBot.trade_ledger
  total_trades,        \* learning_stats['total_trades']
  rolling_executed,    \* learning_stats['rolling_executed']
  instruments_cache,   \* KiteDataFetcher.instruments_cache["NFO"]
  today,               \* datetime.date.today()
  calls,               \* steps taken so far
  last_call            \* the operation just invoked and what it returned

VARIABLES
  strategies,          \* the strategy objects, by BaseStrategy.name
  engine_trade_ledger, \* ModularPaperTradingEngine.trade_ledger
  strategy_call,       \* the operation just invoked on a strategy
  fn_call              \* a function applied to drawn arguments: [fn, args, ret]

VARIABLES
  engine_strategies,     \* ModularPaperTradingEngine.strategies
  strategy_allocations,  \* ModularPaperTradingEngine.strategy_allocations
  engine_call            \* the operation just invoked on the engine

botVars == << available_cash, invested_amount, trade_counter, virtual_positions,
              trade_ledger, total_trades, rolling_executed, instruments_cache,
              today, calls, last_call >>

engineVars == << engine_strategies, strategy_allocations, engine_call >>

strategyVars == << strategies, engine_trade_ledger, strategy_call, engineVars >>

fnVars == << fn_call >>

VARIABLES
  scheduler,           \* where run_paper_trading_scheduler's loop stands
  due,                 \* the scheduled jobs whose next_run has passed
  pending,             \* the jobs run_pending collected and has yet to run
  in_flight            \* the jobs that were started and have not returned

VARIABLES
  tick_count,          \* OptionChainWebSocket.tick_count
  stored_ticks,        \* rows inserted into option_quotes
  close_requested,     \* self.kws.close() was called
  conn_open,           \* self.conn is open: on_close has not run
  late_callbacks       \* on_ticks callbacks delivered after kws.close()

schedulerVars == << scheduler, due, pending, in_flight >>

streamVars == << tick_count, stored_ticks, close_requested, conn_open, late_callbacks >>

\* run_paper_trading_scheduler has not been called.
SchedulerInit ==
  /\ scheduler = "not_started"
  /\ due = {}
  /\ pending = {}
  /\ in_flight = {}

\* OptionChainWebSocket.__init__: the connection is open, no tick was counted.
StreamInit ==
  /\ tick_count = 0
  /\ stored_ticks = 0
  /\ close_requested = FALSE
  /\ conn_open = TRUE
  /\ late_callbacks = 0

\* ------------------------------------------------------ execute_virtual_trade

\* total_value = abs(quantity) * price
TotalValue(quantity, price) == Abs(quantity) * price

\* fees = abs(quantity) * self.brokerage_per_lot
Fees(quantity) == Abs(quantity) * brokerage_per_lot

\* Mutant of CashImpact: the fee is credited on a sale.
CashImpactFeeCredited(action, total_value, fees) ==
  IF action = "BUY" THEN -(total_value + fees) ELSE total_value + fees

\* if action == "BUY": -(total_value + fees) else: total_value - fees
CashImpact(action, total_value, fees) ==
  IF action = "BUY" THEN -(total_value + fees) ELSE total_value - fees

\* Mutant of InsufficientFunds: the funds check is skipped.
InsufficientFundsUnchecked(action, cash_impact, cash) == FALSE

\* if action == "BUY" and abs(cash_impact) > self.available_cash
InsufficientFunds(action, cash_impact, cash) ==
  action = "BUY" /\ Abs(cash_impact) > cash

\* Mutant of BalanceAfter: the balance before the trade is recorded.
BalanceAfterStale(cash, cash_impact) == cash

\* balance_after=self.available_cash + cash_impact
BalanceAfter(cash, cash_impact) == cash + cash_impact

\* VirtualTrade(...)
VirtualTrade(trade_id, date, action, symbol, tradingsymbol, quantity, price, total_value, fees, cash_impact, balance_after) ==
  [trade_id |-> trade_id, date |-> date, action |-> action, symbol |-> symbol,
   tradingsymbol |-> tradingsymbol, quantity |-> quantity, price |-> price,
   total_value |-> total_value, fees |-> fees, cash_impact |-> cash_impact,
   balance_after |-> balance_after]

\* The part of the bot execute_virtual_trade reads and writes.
Books(cash, counter, ledger, trades) ==
  [available_cash |-> cash, trade_counter |-> counter,
   trade_ledger |-> ledger, total_trades |-> trades]

\* execute_virtual_trade on books b: the books after the call and the
\* boolean it returns. The trade id is taken before the funds check.
execute_virtual_trade(b, action, symbol, quantity, price, date) ==
  LET trade_id    == b.trade_counter
      counter     == b.trade_counter + 1
      total_value == TotalValue(quantity, price)
      fees        == Fees(quantity)
      cash_impact == CashImpact(action, total_value, fees)
  IN  IF InsufficientFunds(action, cash_impact, b.available_cash)
      THEN [books |-> [b EXCEPT !.trade_counter = counter], ret |-> FALSE]
      ELSE LET trade == VirtualTrade(trade_id, date, action, symbol, symbol,
                                     Abs(quantity), price, total_value, fees,
                                     cash_impact,
                                     BalanceAfter(b.available_cash, cash_impact))
           IN  [books |-> Books(b.available_cash + cash_impact, counter,
                                Append(b.trade_ledger, trade),
                                b.total_trades + 1),
                ret |-> TRUE]

\* ---------------------------------------------------- initialize_paper_strategy

\* VirtualPosition(...) as both constructors of the bot call it: the exit
\* fields, the Greeks and pnl take the dataclass defaults.
VirtualPosition(trade_id, symbol, tradingsymbol, instrument_token, strike, option_type, expiry, quantity, entry_price, entry_date) ==
  [trade_id |-> trade_id, symbol |-> symbol, tradingsymbol |-> tradingsymbol,
   instrument_token |-> instrument_token, strike |-> strike,
   option_type |-> option_type, expiry |-> expiry, quantity |-> quantity,
   entry_price |-> entry_price, entry_date |-> entry_date,
   current_price |-> entry_price, exit_price |-> 0, exit_date |-> NoDate,
   status |-> "OPEN", delta |-> 0, gamma |-> 0, theta |-> 0, vega |-> 0,
   pnl |-> 0]

\* cash_impact = -investment if quantity > 0 else investment; cash_impact -= fees
InitialCashImpact(quantity, investment, fees) ==
  (IF quantity > 0 THEN -investment ELSE investment) - fees

\* One pass of the loop over strategy_positions, on
\* s = [positions, ledger, cash, counter, total_investment].
InitialPosition(s, pos_data, cache, date) ==
  LET info        == search_instrument(cache, pos_data.strike, pos_data.option_type)
      trade_id    == s.counter
      tsym        == InfoTradingsymbol(info, pos_data.symbol)
      position    == VirtualPosition(trade_id, pos_data.symbol, tsym,
                                     InfoToken(info), pos_data.strike,
                                     pos_data.option_type, pos_data.expiry,
                                     pos_data.quantity, pos_data.entry_price, date)
      investment  == Abs(pos_data.quantity) * pos_data.entry_price
      fees        == Abs(pos_data.quantity) * brokerage_per_lot
      cash_impact == InitialCashImpact(pos_data.quantity, investment, fees)
      trade       == VirtualTrade(trade_id, date,
                                  IF pos_data.quantity > 0 THEN "BUY" ELSE "SELL",
                                  pos_data.symbol, tsym, Abs(pos_data.quantity),
                                  pos_data.entry_price, investment, fees,
                                  cash_impact,
                                  BalanceAfter(s.cash, cash_impact))
  IN  [positions |-> Append(s.positions, position),
       ledger    |-> Append(s.ledger, trade),
       cash      |-> s.cash + cash_impact,
       counter   |-> s.counter + 1,
       total_investment |-> IF pos_data.quantity > 0
                            THEN s.total_investment + investment
                            ELSE s.total_investment - investment]

RECURSIVE InitialPositions(_, _, _, _)
InitialPositions(s, i, cache, date) ==
  IF i > Len(strategy_positions) THEN s
  ELSE InitialPositions(InitialPosition(s, strategy_positions[i], cache, date),
                        i + 1, cache, date)

\* initialize_paper_strategy: there is no check that it already ran.
initialize_paper_strategy(fetched) ==
  LET cache == get_instruments(instruments_cache, fetched)
      s == InitialPositions([positions |-> virtual_positions,
                             ledger |-> trade_ledger,
                             cash |-> available_cash,
                             counter |-> trade_counter,
                             total_investment |-> 0],
                            1, cache, today)
  IN  /\ instruments_cache' = cache
      /\ virtual_positions' = s.positions
      /\ trade_ledger' = s.ledger
      /\ available_cash' = s.cash
      /\ trade_counter' = s.counter
      /\ invested_amount' = s.total_investment
      /\ total_trades' = Len(strategy_positions)
      /\ last_call' = [op |-> "initialize_paper_strategy", ret |-> "None"]
      /\ UNCHANGED << rolling_executed, today >>

\* -------------------------------------------------------- update_position_prices

\* A quote feed is the answer of get_quote: <<key, quote_data>> pairs in the
\* order of the response; quote_data is a dict with last_price, a dict
\* without it, or not a dict at all.
Quote(key, price) == [key |-> key, kind |-> "quote", last_price |-> price]
NoLastPrice(key) == [key |-> key, kind |-> "no_last_price", last_price |-> 0]
NotADict(key) == [key |-> key, kind |-> "not_a_dict", last_price |-> 0]

\* if position.status == "OPEN" and position.instrument_token > 0
Quotable(p) == p.status = "OPEN" /\ p.instrument_token > 0

\* token_to_position[instrument_key]: a later position of the same
\* tradingsymbol overwrites an earlier one; 0 when the key is absent.
token_to_position(positions, key) ==
  LET is == { i \in 1..Len(positions) :
                Quotable(positions[i]) /\ positions[i].tradingsymbol = key }
  IN  IF is = {} THEN 0 ELSE CHOOSE i \in is : \A j \in is : j <= i

\* Mutant of PositionPnl: the lot count without its sign.
PositionPnlUnsigned(current_price, entry_price, quantity) ==
  (current_price - entry_price) * Abs(quantity)

\* position.pnl = (position.current_price - position.entry_price) * position.quantity
PositionPnl(current_price, entry_price, quantity) ==
  (current_price - entry_price) * quantity

\* The body of the loop over quotes.items() for one position.
Reprice(p, q, market_data, day, after_midnight) ==
  LET price  == IF q.kind = "quote" THEN q.last_price ELSE p.current_price
      greeks == calculate_option_greeks(market_data.nifty_price, p.strike,
                                        p.expiry, p.option_type,
                                        market_data.vix_level, day, after_midnight)
  IN  [p EXCEPT !.current_price = price,
                !.delta = greeks.delta, !.gamma = greeks.gamma,
                !.theta = greeks.theta, !.vega = greeks.vega,
                !.pnl = PositionPnl(price, p.entry_price, p.quantity)]

\* The loop over quotes.items(): quote_data.get on something that is not a
\* dict raises, and the except clause around the whole loop ends the call.
RECURSIVE RepriceAll(_, _, _, _, _, _, _)
RepriceAll(positions, orig, feed, k, market_data, day, after_midnight) ==
  IF k > Len(feed) THEN positions
  ELSE LET q == feed[k]
           i == token_to_position(orig, q.key)
       IN  IF i = 0
           THEN RepriceAll(positions, orig, feed, k + 1, market_data, day, after_midnight)
           ELSE IF q.kind = "not_a_dict" THEN positions
           ELSE RepriceAll([positions EXCEPT
                              ![i] = Reprice(positions[i], q, market_data, day, after_midnight)],
                           orig, feed, k + 1, market_data, day, after_midnight)

\* update_position_prices(market_data), the broker answering with feed.
update_position_prices(positions, feed, market_data, day, after_midnight) ==
  IF positions = << >> THEN positions
  ELSE IF \A i \in 1..Len(positions) : ~Quotable(positions[i]) THEN positions
  ELSE RepriceAll(positions, positions, feed, 1, market_data, day, after_midnight)

\* ---------------------------------------------------------- simulate_monthly_roll

\* Mutant of ToRoll: closed positions are selected too.
ToRollAnyStatus(p, current_expiry) ==
  p.expiry = current_expiry /\ p.quantity < 0

\* p.expiry == current_expiry and p.quantity < 0 and p.status == "OPEN"
ToRoll(p, current_expiry) ==
  p.expiry = current_expiry /\ p.quantity < 0 /\ p.status = "OPEN"

\* position.symbol.replace(current_expiry.replace('-', ''), ...): symbols spell
\* the expiry as 25SEP, never as 20250926, so nothing is replaced.
NewSymbol(symbol, current_expiry, new_expiry) == symbol

\* position.status = "CLOSED"; exit_price = close_price; exit_date = today
MarkClosed(p, close_price, date) ==
  [p EXCEPT !.status = "CLOSED", !.exit_price = close_price, !.exit_date = date]

\* One pass of the loop over positions_to_roll, for the position at index i,
\* on r = [books, positions, rolling_executed]. Neither return value of
\* execute_virtual_trade is looked at.
RollPosition(r, i, current_expiry, new_expiry, date) ==
  LET position    == r.positions[i]
      close_price == Times095(position.current_price)
      bought      == execute_virtual_trade(r.books, "BUY", position.symbol,
                                           Abs(position.quantity), close_price, date)
      new_symbol  == NewSymbol(position.symbol, current_expiry, new_expiry)
      new_price   == Times110(close_price)
      sold        == execute_virtual_trade(bought.books, "SELL", new_symbol,
                                           Abs(position.quantity), new_price, date)
      new_position == VirtualPosition(sold.books.trade_counter, new_symbol,
                                      new_symbol, 0, position.strike,
                                      position.option_type, new_expiry,
                                      position.quantity, new_price, date)
  IN  [books |-> [sold.books EXCEPT !.trade_counter = @ + 1],
       positions |-> Append([r.positions EXCEPT
                               ![i] = MarkClosed(position, close_price, date)],
                            new_position),
       rolling_executed |-> r.rolling_executed + 1]

\* The loop runs over the positions selected before it starts.
RECURSIVE RollAll(_, _, _, _, _, _)
RollAll(r, i, n, current_expiry, new_expiry, date) ==
  IF i > n THEN r
  ELSE IF ToRoll(r.positions[i], current_expiry)
       THEN RollAll(RollPosition(r, i, current_expiry, new_expiry, date),
                    i + 1, n, current_expiry, new_expiry, date)
       ELSE RollAll(r, i + 1, n, current_expiry, new_expiry, date)

\* -------------------------------------------------------------- the strategies
\* The strategy classes keep money in whole rupees.

StrategyNames == { "Volatility Arbitrage", "Equity Momentum", "Simple Demo" }

\* STRATEGY_ALLOCATIONS of config_template.py; main() of the engine passes
\* the same figures.
STRATEGY_ALLOCATIONS ==
  [n \in StrategyNames |->
     CASE n = "Volatility Arbitrage" -> 38550
       [] n = "Equity Momentum" -> 20000
       [] n = "Simple Demo" -> 15000]

\* Initialisations of one strategy object in one run.
MaxInits == 2

\* StrategyPosition(...) with the dataclass defaults.
StrategyPosition(symbol, tradingsymbol, strike, option_type, expiry, quantity, entry_price, entry_date) ==
  [symbol |-> symbol, tradingsymbol |-> tradingsymbol, instrument_token |-> 0,
   strike |-> strike, option_type |-> option_type, expiry |-> expiry,
   quantity |-> quantity, entry_price |-> entry_price, entry_date |-> entry_date,
   current_price |-> 0, exit_price |-> 0, exit_date |-> NoDate, status |-> "OPEN"]

\* The position tables of the three initialize_positions.
VolatilityArbitragePositions ==
  << [symbol |-> "NIFTY26MAR24600CE", tradingsymbol |-> "NIFTY26MAR24600CE",
      strike |-> 24600, option_type |-> "CE", expiry |-> "2026-03-26",
      quantity |-> 25, entry_price |-> 1100],
     [symbol |-> "NIFTY26MAR24600PE", tradingsymbol |-> "NIFTY26MAR24600PE",
      strike |-> 24600, option_type |-> "PE", expiry |-> "2026-03-26",
      quantity |-> 25, entry_price |-> 980],
     [symbol |-> "NIFTY25SEP24600CE", tradingsymbol |-> "NIFTY25SEP24600CE",
      strike |-> 24600, option_type |-> "CE", expiry |-> "2025-09-26",
      quantity |-> -25, entry_price |-> 350],
     [symbol |-> "NIFTY25SEP24600PE", tradingsymbol |-> "NIFTY25SEP24600PE",
      strike |-> 24600, option_type |-> "PE", expiry |-> "2025-09-26",
      quantity |-> -25, entry_price |-> 320],
     [symbol |-> "NIFTY26MAR26000CE", tradingsymbol |-> "NIFTY26MAR26000CE",
      strike |-> 26000, option_type |-> "CE", expiry |-> "2026-03-26",
      quantity |-> 10, entry_price |-> 150],
     [symbol |-> "NIFTY26MAR23000PE", tradingsymbol |-> "NIFTY26MAR23000PE",
      strike |-> 23000, option_type |-> "PE", expiry |-> "2026-03-26",
      quantity |-> 10, entry_price |-> 180] >>

EquityMomentumPositions ==
  << [symbol |-> "RELIANCE", tradingsymbol |-> "RELIANCE-EQ", strike |-> 0,
      option_type |-> "EQ", expiry |-> "PERPETUAL", quantity |-> 100,
      entry_price |-> 2500],
     [symbol |-> "TCS", tradingsymbol |-> "TCS-EQ", strike |-> 0,
      option_type |-> "EQ", expiry |-> "PERPETUAL", quantity |-> 50,
      entry_price |-> 3800] >>

SimpleDemoPositions ==
  << [symbol |-> "INFY", tradingsymbol |-> "INFY-EQ", strike |-> 0,
      option_type |-> "EQ", expiry |-> "PERPETUAL", quantity |-> 200,
      entry_price |-> 1500],
     [symbol |-> "HDFC", tradingsymbol |-> "HDFC-EQ", strike |-> 0,
      option_type |-> "EQ", expiry |-> "PERPETUAL", quantity |-> 100,
      entry_price |-> 1800] >>

PositionTable(name) ==
  CASE name = "Volatility Arbitrage" -> VolatilityArbitragePositions
    [] name = "Equity Momentum" -> EquityMomentumPositions
    [] name = "Simple Demo" -> SimpleDemoPositions

\* BaseStrategy.__init__; inits counts the initialize_positions calls made on
\* the object.
BaseStrategy(name, capital, allocation) ==
  [made |-> TRUE, name |-> name, total_capital |-> capital,
   strategy_allocation |-> allocation, available_cash |-> allocation,
   positions |-> << >>, inits |-> 0]

\* What the constructors of the subclasses set on top of that; fractions are
\* kept in hundredths (momentum_threshold 0.02, target_return 0.15).
OwnAttributes(name) ==
  CASE name = "Volatility Arbitrage" -> [nifty_entry_level |-> 24631,
                                         vix_entry_level |-> 12]
    [] name = "Equity Momentum" -> [momentum_threshold |-> 2]
    [] name = "Simple Demo" -> [target_return |-> 15]

\* VolatilityArbitrageStrategy(capital, allocation) and its siblings.
Strategy(name, capital, allocation) ==
  BaseStrategy(name, capital, allocation) @@ OwnAttributes(name)

NotMade(name) ==
  [made |-> FALSE, name |-> name, total_capital |-> 0, strategy_allocation |-> 0,
   available_cash |-> 0, positions |-> << >>, inits |-> 0]

\* "Update cash balance" in the loop of initialize_positions: the volatility
\* strategy credits its shorts, the two equity strategies only debit.
CashAfterOpening(name, cash, quantity, investment) ==
  IF name = "Volatility Arbitrage"
  THEN IF quantity > 0 THEN cash - investment ELSE cash + investment
  ELSE cash - investment

\* The loop of initialize_positions from row i on, on <<positions, cash>>.
RECURSIVE OpenPositions(_, _, _, _, _)
OpenPositions(name, positions, cash, i, date) ==
  LET table == PositionTable(name)
  IN  IF i > Len(table) THEN [positions |-> positions, cash |-> cash]
      ELSE LET d == table[i]
               investment == Abs(d.quantity) * d.entry_price
           IN  OpenPositions(name,
                             Append(positions,
                                    StrategyPosition(d.symbol, d.tradingsymbol,
                                                     d.strike, d.option_type,
                                                     d.expiry, d.quantity,
                                                     d.entry_price, date)),
                             CashAfterOpening(name, cash, d.quantity, investment),
                             i + 1, date)

\* initialize_positions(kite_data) on strategy object st: a fresh list of
\* positions replaces self.positions, the cash is adjusted in place; nothing
\* checks that it already ran, nothing is raised.
initialize_positions(st, date) ==
  LET r == OpenPositions(st.name, << >>, st.available_cash, 1, date)
  IN  [st EXCEPT !.positions = r.positions, !.available_cash = r.cash,
                 !.inits = @ + 1]

\* Mutant of Notional: the signed quantity.
NotionalSigned(pos) == pos.quantity * pos.entry_price

\* abs(pos.quantity) * pos.entry_price
Notional(pos) == Abs(pos.quantity) * pos.entry_price

\* BaseStrategy.get_invested_amount over a list of positions.
RECURSIVE get_invested_amount(_)
get_invested_amount(positions) ==
  IF positions = << >> THEN 0
  ELSE LET pos == positions[Len(positions)]
           rest == get_invested_amount(SubSeq(positions, 1, Len(positions) - 1))
       IN  IF pos.status = "OPEN" THEN rest + Notional(pos) ELSE rest

\* BaseStrategy.get_cash_balance
get_cash_balance(st) == st.available_cash

\* ------------------------------------------------------------- the bot's inputs

TradeActions == { "BUY", "SELL" }
TradeSymbols == { "NIFTY25SEP24600CE" }
TradeQuantities == { 25, -25 }
TradePrices == { Rupees(10), Rupees(8000) }

\* <<current_expiry, new_expiry>>
RollPairs == { << "2025-09-26", "2025-10-26" >>, << "2025-10-26", "2026-03-26" >> }

MarketSnapshots == { [nifty_price |-> PricedSpot, vix_level |-> PricedVix],
                     [nifty_price |-> PricedSpot, vix_level |-> 0] }

QuoteFeeds ==
  { << >>,
    << Quote("NIFTY25SEP24600CE", Rupees(400)), Quote("NIFTY25SEP24600PE", Rupees(360)),
       Quote("NIFTY26MAR26000CE", Rupees(200)), Quote("NIFTY26MAR23000PE", Rupees(220)) >>,
    << Quote("NIFTY26MAR23000PE", Rupees(150)), Quote("NIFTY26MAR26000CE", Rupees(120)),
       Quote("NIFTY25SEP24600PE", Rupees(280)), Quote("NIFTY25SEP24600CE", Rupees(300)) >>,
    << NoLastPrice("NIFTY25SEP24600CE"), Quote("NIFTY25SEP24600PE", Rupees(360)) >>,
    << Quote("NIFTY25SEP24600PE", Rupees(280)), NotADict("NIFTY25SEP24600CE"),
       Quote("NIFTY26MAR26000CE", Rupees(200)) >> }

\* ------------------------------------------------------------ the bot's actions

Called(op, args, ret) == [op |-> op, args |-> args, ret |-> ret]

BotInit ==
  /\ available_cash = total_virtual_capital
  /\ invested_amount = 0
  /\ trade_counter = 1
  /\ virtual_positions = << >>
  /\ trade_ledger = << >>
  /\ total_trades = 0
  /\ rolling_executed = 0
  /\ instruments_cache = EmptyFrame
  /\ today = 0
  /\ calls = 0
  /\ last_call = Called("__init__", << >>, "None")

InitializePaperStrategy ==
  /\ calls < MaxCalls
  /\ calls' = calls + 1
  /\ \E fetched \in FetchOutcomes : initialize_paper_strategy(fetched)
  /\ UNCHANGED << strategyVars, fnVars, schedulerVars, streamVars >>

ExecuteVirtualTrade ==
  /\ calls < MaxCalls
  /\ calls' = calls + 1
  /\ \E action \in TradeActions, symbol \in TradeSymbols,
        quantity \in TradeQuantities, price \in TradePrices :
       LET r == execute_virtual_trade(
                  Books(available_cash, trade_counter, trade_ledger, total_trades),
                  action, symbol, quantity, price, today)
       IN  /\ available_cash' = r.books.available_cash
           /\ trade_counter' = r.books.trade_counter
           /\ trade_ledger' = r.books.trade_ledger
           /\ total_trades' = r.books.total_trades
           /\ last_call' = Called("execute_virtual_trade",
                                  << action, symbol, quantity, price >>,
                                  IF r.ret THEN "True" ELSE "False")
  /\ UNCHANGED << invested_amount, virtual_positions, rolling_executed,
                  instruments_cache, today >>
  /\ UNCHANGED << strategyVars, fnVars, schedulerVars, streamVars >>

UpdatePositionPrices ==
  /\ calls < MaxCalls
  /\ calls' = calls + 1
  /\ \E feed \in QuoteFeeds, market_data \in MarketSnapshots,
        after_midnight \in BOOLEAN :
       /\ virtual_positions' = update_position_prices(virtual_positions, feed,
                                                      market_data, today, after_midnight)
       /\ last_call' = Called("update_position_prices", << >>, "None")
  /\ UNCHANGED << available_cash, invested_amount, trade_counter, trade_ledger,
                  total_trades, rolling_executed, instruments_cache, today >>
  /\ UNCHANGED << strategyVars, fnVars, schedulerVars, streamVars >>

SimulateMonthlyRoll ==
  /\ calls < MaxCalls
  /\ calls' = calls + 1
  /\ \E pair \in RollPairs :
       LET r == RollAll([books |-> Books(available_cash, trade_counter,
                                         trade_ledger, total_trades),
                         positions |-> virtual_positions,
                         rolling_executed |-> rolling_executed],
                        1, Len(virtual_positions), pair[1], pair[2], today)
       IN  /\ available_cash' = r.books.available_cash
           /\ trade_counter' = r.books.trade_counter
           /\ trade_ledger' = r.books.trade_ledger
           /\ total_trades' = r.books.total_trades
           /\ virtual_positions' = r.positions
           /\ rolling_executed' = r.rolling_executed
           /\ last_call' = Called("simulate_monthly_roll", pair, "None")
  /\ UNCHANGED << invested_amount, instruments_cache, today >>
  /\ UNCHANGED << strategyVars, fnVars, schedulerVars, streamVars >>

\* Midnight passes.
NextDay ==
  /\ calls < MaxCalls
  /\ calls' = calls + 1
  /\ today < MaxDay
  /\ today' = today + 1
  /\ last_call' = Called("midnight", << >>, "None")
  /\ UNCHANGED << available_cash, invested_amount, trade_counter, virtual_positions,
                  trade_ledger, total_trades, rolling_executed, instruments_cache >>
  /\ UNCHANGED << strategyVars, fnVars, schedulerVars, streamVars >>

\* --------------------------------------------------------------- rebalancing

\* market_data.get(key, 0): a market_data dict is a record of the four keys
\* the strategies read, an absent key reading 0; momentum_score and
\* market_volatility are in hundredths.
MarketData(vix, nifty_change_pct, momentum_score, market_volatility) ==
  [vix |-> vix, nifty_change_pct |-> nifty_change_pct,
   momentum_score |-> momentum_score, market_volatility |-> market_volatility]

\* should_rebalance(market_data) on strategy object st: the object after the
\* call and the boolean returned.
should_rebalance(st, market_data) ==
  [self |-> st,
   ret |-> CASE st.name = "Volatility Arbitrage" ->
                  LET vix_change == Abs(market_data.vix - st.vix_entry_level)
                      nifty_change_pct == Abs(market_data.nifty_change_pct)
                  IN  vix_change > 3 \/ nifty_change_pct > 5
             [] st.name = "Equity Momentum" ->
                  market_data.momentum_score > st.momentum_threshold
             [] st.name = "Simple Demo" ->
                  market_data.market_volatility > 30]

\* Mutant of rebalance_strategy: the proposal is carried out on the spot,
\* the positions are dropped.
rebalance_strategy_carried_out(st, market_data) ==
  [self |-> [st EXCEPT !.positions = << >>],
   ret |-> << [action |-> "REDUCE_RISK", reason |-> "High volatility detected",
               positions |-> << >>] >>]

\* rebalance_strategy(market_data, kite_data) on strategy object st: the
\* object after the call and the list of trades returned.
rebalance_strategy(st, market_data) ==
  [self |-> st,
   ret |-> CASE st.name = "Volatility Arbitrage" ->
                  IF market_data.vix > st.vix_entry_level + 5
                  THEN << [action |-> "ADD_PROTECTION",
                           reason |-> "VIX spike detected", positions |-> << >>] >>
                  ELSE << >>
             [] st.name = "Equity Momentum" ->
                  IF market_data.momentum_score > st.momentum_threshold
                  THEN << [action |-> "ADD_MOMENTUM",
                           reason |-> "Positive momentum detected",
                           positions |-> << >>] >>
                  ELSE << >>
             [] st.name = "Simple Demo" ->
                  IF market_data.market_volatility > 30
                  THEN << [action |-> "REDUCE_RISK",
                           reason |-> "High volatility detected",
                           positions |-> << >>] >>
                  ELSE << >>]

\* ------------------------------------------------------------------ the engine

\* self.strategies = {}; self.strategy_allocations = {}
EmptyDict == [n \in {} |-> 0]

\* self.total_capital of the engine, in rupees.
engine_total_capital == 500000

\* MAX_STRATEGY_ALLOCATION = 0.20, in percent of the total capital.
MAX_STRATEGY_ALLOCATION == 20

\* add_strategy(strategy, allocation) on the two dicts of the engine: both
\* entries are assigned under strategy.name, whatever was there.
add_strategy(registry, allocations, strategy, allocation) ==
  [strategies |-> (strategy.name :> strategy) @@ registry,
   strategy_allocations |-> (strategy.name :> allocation) @@ allocations]

\* ------------------------------------------------------ the strategies' actions

AllocationChoices == { STRATEGY_ALLOCATIONS[n] : n \in StrategyNames } \cup { 480000 }

StrategyInit ==
  /\ strategies = [n \in StrategyNames |-> NotMade(n)]
  /\ engine_trade_ledger = << >>
  /\ strategy_call = Called("none", << >>, "None")
  /\ engine_strategies = EmptyDict
  /\ strategy_allocations = EmptyDict
  /\ engine_call = Called("none", << >>, "None")

\* VolatilityArbitrageStrategy(capital, allocation) and its siblings.
MakeStrategy ==
  /\ \E n \in StrategyNames, allocation \in AllocationChoices :
       /\ ~strategies[n].made
       /\ strategies' = [strategies EXCEPT ![n] = Strategy(n, 500000, allocation)]
       /\ strategy_call' = Called("__init__", << n, allocation >>, "None")
  /\ UNCHANGED << engine_trade_ledger, engineVars, botVars, fnVars,
                  schedulerVars, streamVars >>

InitializePositions ==
  /\ \E n \in StrategyNames :
       /\ strategies[n].made
       /\ strategies[n].inits < MaxInits
       /\ strategies' = [strategies EXCEPT ![n] = initialize_positions(@, today)]
       /\ strategy_call' = Called("initialize_positions", << n >>, "positions")
  /\ UNCHANGED << engine_trade_ledger, engineVars, botVars, fnVars,
                  schedulerVars, streamVars >>

GetInvestedAmount ==
  /\ \E n \in StrategyNames :
       /\ strategies[n].made
       /\ strategy_call' = Called("get_invested_amount", << n >>,
                                  get_invested_amount(strategies[n].positions))
  /\ UNCHANGED << strategies, engine_trade_ledger, engineVars, botVars, fnVars,
                  schedulerVars, streamVars >>

\* ------------------------------------------------------------ functions applied

NoCall == [fn |-> "none", args |-> << >>, done |-> TRUE, ret |-> 0]

FnIdle == fn_call = NoCall

\* Positions drawn for get_invested_amount: longs and shorts, open and closed.
MaxPositions == 2

DrawnPositions ==
  { [StrategyPosition("NIFTY24600CE", "NIFTY24600CE", 24600, "CE", "2026-03-26",
                      q, p, 0) EXCEPT !.status = st] :
      q \in { 25, -25 }, p \in { 1100, 350 }, st \in { "OPEN", "CLOSED" } }

PositionLists == UNION { [1..k -> DrawnPositions] : k \in 0..MaxPositions }

InvestedInit ==
  /\ BotInit
  /\ StrategyInit
  /\ SchedulerInit
  /\ StreamInit
  /\ \E ps \in PositionLists :
       fn_call = [fn |-> "get_invested_amount", args |-> ps, done |-> FALSE, ret |-> 0]

ApplyGetInvestedAmount ==
  /\ fn_call.fn = "get_invested_amount"
  /\ ~fn_call.done
  /\ fn_call' = [fn_call EXCEPT !.done = TRUE, !.ret = get_invested_amount(fn_call.args)]
  /\ UNCHANGED << botVars, strategyVars, schedulerVars, streamVars >>

\* --------------------------------------------------------------- specifications

vars == << botVars, strategyVars, fnVars, schedulerVars, streamVars >>

Init == BotInit /\ StrategyInit /\ SchedulerInit /\ StreamInit /\ FnIdle

Next ==
  \/ InitializePaperStrategy
  \/ ExecuteVirtualTrade
  \/ UpdatePositionPrices
  \/ SimulateMonthlyRoll
  \/ NextDay

\* The bot.
Spec == Init /\ [][Next]_vars

StrategyNext ==
  \/ MakeStrategy
  \/ InitializePositions
  \/ GetInvestedAmount

\* The strategy objects.
SpecStrategy == Init /\ [][StrategyNext]_vars

\* get_invested_amount on drawn position lists.
SpecInvested == InvestedInit /\ [][ApplyGetInvestedAmount]_vars

\* The market_data dicts handed to the strategies: empty, calm, VIX four
\* points up, a VIX spike, a NIFTY fall of 6%, momentum and volatility at and
\* above their thresholds.
MarketConditions ==
  { MarketData(0, 0, 0, 0), MarketData(12, 0, 0, 0), MarketData(16, 0, 0, 0),
    MarketData(18, 0, 3, 31), MarketData(12, -6, 2, 30) }

ShouldRebalance ==
  /\ \E n \in StrategyNames, market_data \in MarketConditions :
       /\ strategies[n].made
       /\ LET r == should_rebalance(strategies[n], market_data)
          IN  /\ strategies' = [strategies EXCEPT ![n] = r.self]
              /\ strategy_call' = Called("should_rebalance", << n, market_data >>, r.ret)
  /\ UNCHANGED << engine_trade_ledger, engineVars, botVars, fnVars,
                  schedulerVars, streamVars >>

RebalanceStrategy ==
  /\ \E n \in StrategyNames, market_data \in MarketConditions :
       /\ strategies[n].made
       /\ LET r == rebalance_strategy(strategies[n], market_data)
          IN  /\ strategies' = [strategies EXCEPT ![n] = r.self]
              /\ strategy_call' = Called("rebalance_strategy", << n, market_data >>, r.ret)
  /\ UNCHANGED << engine_trade_ledger, engineVars, botVars, fnVars,
                  schedulerVars, streamVars >>

RebalanceNext ==
  \/ MakeStrategy
  \/ InitializePositions
  \/ ShouldRebalance
  \/ RebalanceStrategy

\* The strategy objects asked whether and how to rebalance.
SpecRebalance == Init /\ [][RebalanceNext]_vars

\* ------------------------------------------------------- the engine's actions

\* engine.add_strategy(Strategy(capital, own_allocation), allocation)
AddStrategy ==
  /\ \E n \in StrategyNames, own_allocation \in AllocationChoices,
        allocation \in AllocationChoices :
       LET strategy == Strategy(n, engine_total_capital, own_allocation)
           r == add_strategy(engine_strategies, strategy_allocations,
                             strategy, allocation)
       IN  /\ engine_strategies' = r.strategies
           /\ strategy_allocations' = r.strategy_allocations
           /\ engine_call' = Called("add_strategy", << n, own_allocation, allocation >>,
                                    "None")
  /\ UNCHANGED << strategies, engine_trade_ledger, strategy_call, botVars, fnVars,
                  schedulerVars, streamVars >>

\* Registration of strategies with the engine.
SpecEngine == Init /\ [][AddStrategy]_vars

\* ----------------------------------------------------------------- the Greeks

\* Arguments of calculate_option_greeks: the priced spot and strikes and
\* invalid ones, the three expiries and one that does not parse, the priced
\* volatility and none. A negative volatility is priced by the code without
\* raising; such prices are not tabulated, so it is drawn for options that
\* are past expiry only.
GreeksArguments ==
  { a \in [spot : { PricedSpot, 0, -1 },
           strike : { 23000, 24600, 26000, 0 },
           expiry : ParsableExpiries \cup { "26-MAR-2026" },
           vix : { PricedVix, 0, -5 },
           day : 0..MaxDay,
           after_midnight : BOOLEAN] :
      a.vix < 0 => /\ a.expiry \in ParsableExpiries
                   /\ DaysToExpiry(a.expiry, a.day, a.after_midnight) <= 0 }

GreeksInit ==
  /\ BotInit
  /\ StrategyInit
  /\ SchedulerInit
  /\ StreamInit
  /\ \E a \in GreeksArguments :
       fn_call = [fn |-> "calculate_option_greeks", args |-> a, done |-> FALSE,
                  ret |-> << >>, error_logged |-> FALSE]

\* calculate_option_greeks for the call and for the put of the same arguments.
ApplyCalculateOptionGreeks ==
  /\ fn_call.fn = "calculate_option_greeks"
  /\ ~fn_call.done
  /\ LET a == fn_call.args
     IN  fn_call' = [fn_call EXCEPT
                       !.done = TRUE,
                       !.ret = [option_type \in { "CE", "PE" } |->
                                  calculate_option_greeks(a.spot, a.strike, a.expiry,
                                                          option_type, a.vix, a.day,
                                                          a.after_midnight)],
                       !.error_logged = GreeksRaises(a.spot, a.strike, a.expiry,
                                                     a.vix, a.day, a.after_midnight)]
  /\ UNCHANGED << botVars, strategyVars, schedulerVars, streamVars >>

\* calculate_option_greeks on drawn arguments.
SpecGreeks == GreeksInit /\ [][ApplyCalculateOptionGreeks]_vars

\* ------------------------------------------------------------------ valuation

\* Mutant of CountsInPortfolio: every position counts, whatever its status.
CountsInPortfolioAnyStatus(position) == TRUE

\* if position.status == "OPEN"
CountsInPortfolio(position) == position.status = "OPEN"

NoMetrics ==
  [total_pnl |-> 0, portfolio_greeks |-> ZeroGreeks]

\* The loop of calculate_portfolio_metrics from position i on, on
\* m = [total_pnl, portfolio_greeks].
RECURSIVE AddPositions(_, _, _)
AddPositions(m, positions, i) ==
  IF i > Len(positions) THEN m
  ELSE LET position == positions[i]
           g == m.portfolio_greeks
       IN  IF CountsInPortfolio(position)
           THEN AddPositions(
                  [total_pnl |-> m.total_pnl + position.pnl,
                   portfolio_greeks |->
                     [delta |-> g.delta + position.delta * position.quantity,
                      gamma |-> g.gamma + position.gamma * position.quantity,
                      theta |-> g.theta + position.theta * position.quantity,
                      vega  |-> g.vega + position.vega * position.quantity]],
                  positions, i + 1)
           ELSE AddPositions(m, positions, i + 1)

\* calculate_portfolio_metrics on the bot's positions, cash and invested amount.
calculate_portfolio_metrics(positions, cash, invested) ==
  LET m == AddPositions(NoMetrics, positions, 1)
  IN  [total_pnl |-> m.total_pnl,
       portfolio_value |-> cash + invested + m.total_pnl,
       portfolio_greeks |-> m.portfolio_greeks,
       open_positions |-> Cardinality({ i \in 1..Len(positions) :
                                          positions[i].status = "OPEN" })]

\* except Exception as e: logger.error("Error updating position prices") is
\* reached: some quote of a tracked position is not a dict.
UpdateRaises(positions, feed) ==
  \E k \in 1..Len(feed) :
    feed[k].kind = "not_a_dict" /\ token_to_position(positions, feed[k].key) # 0

\* The bot after initialize_paper_strategy on the first day.
InitializedPortfolio ==
  LET s == InitialPositions([positions |-> << >>, ledger |-> << >>,
                             cash |-> total_virtual_capital, counter |-> 1,
                             total_investment |-> 0],
                            1, NfoInstruments, 0)
  IN  [positions |-> s.positions, books |-> Books(s.cash, s.counter, s.ledger,
                                                   Len(strategy_positions)),
       invested_amount |-> s.total_investment]

\* The bot after one more update_position_prices.
RepricedPortfolios ==
  { [InitializedPortfolio EXCEPT
       !.positions = update_position_prices(@, feed, market_data, 0, FALSE)] :
      feed \in QuoteFeeds, market_data \in MarketSnapshots }

\* The bot after simulate_monthly_roll on top of that.
RolledPortfolios ==
  { LET r == RollAll([books |-> b.books, positions |-> b.positions,
                      rolling_executed |-> 0],
                     1, Len(b.positions), "2025-09-26", "2025-10-26", 0)
    IN  [b EXCEPT !.positions = r.positions, !.books = r.books] :
      b \in RepricedPortfolios }

Portfolios == { InitializedPortfolio } \cup RepricedPortfolios \cup RolledPortfolios

\* update_position_prices is about to run on a drawn portfolio.
ValuationInit ==
  /\ BotInit
  /\ StrategyInit
  /\ SchedulerInit
  /\ StreamInit
  /\ \E portfolio \in Portfolios, feed \in QuoteFeeds,
        market_data \in MarketSnapshots, day \in 0..MaxDay,
        after_midnight \in BOOLEAN :
       fn_call = [fn |-> "update_position_prices",
                  args |-> [portfolio |-> portfolio, feed |-> feed,
                            market_data |-> market_data, day |-> day,
                            after_midnight |-> after_midnight],
                  done |-> FALSE, ret |-> << >>, error_logged |-> FALSE]

ApplyUpdatePositionPrices ==
  /\ fn_call.fn = "update_position_prices"
  /\ ~fn_call.done
  /\ fn_call' = [fn_call EXCEPT
                   !.done = TRUE,
                   !.error_logged = UpdateRaises(fn_call.args.portfolio.positions,
                                                 fn_call.args.feed),
                   !.ret = update_position_prices(fn_call.args.portfolio.positions,
                                                  fn_call.args.feed,
                                                  fn_call.args.market_data,
                                                  fn_call.args.day,
                                                  fn_call.args.after_midnight)]
  /\ UNCHANGED << botVars, strategyVars, schedulerVars, streamVars >>

\* calculate_portfolio_metrics on the portfolio as the update left it.
ApplyCalculatePortfolioMetrics ==
  /\ fn_call.fn = "update_position_prices"
  /\ fn_call.done
  /\ LET portfolio == [fn_call.args.portfolio EXCEPT !.positions = fn_call.ret]
     IN  fn_call' = [fn |-> "calculate_portfolio_metrics",
                     args |-> [portfolio |-> portfolio],
                     done |-> TRUE,
                     ret |-> calculate_portfolio_metrics(
                               portfolio.positions,
                               portfolio.books.available_cash,
                               portfolio.invested_amount)]
  /\ UNCHANGED << botVars, strategyVars, schedulerVars, streamVars >>

ValuationNext ==
  \/ ApplyUpdatePositionPrices
  \/ ApplyCalculatePortfolioMetrics

\* Revaluation of drawn portfolios.
SpecValuation == ValuationInit /\ [][ValuationNext]_vars

\* ------------------------------------------------------------------- the roll

\* Prices of one more virtual BUY of 25 lots before the roll.
DrainPrices == { Rupees(18140) }

\* The bot after initialization and repricing, and the same bot after a BUY
\* that leaves less cash than buying back a short costs.
RollPortfolios ==
  LET base == { InitializedPortfolio } \cup RepricedPortfolios
  IN  base \cup
      { [b EXCEPT !.books = execute_virtual_trade(b.books, "BUY", "NIFTY26MAR24600CE",
                                                  25, price, 0).books] :
          b \in base, price \in DrainPrices }

\* simulate_monthly_roll is about to run on a drawn portfolio.
RollInit ==
  /\ BotInit
  /\ StrategyInit
  /\ SchedulerInit
  /\ StreamInit
  /\ \E portfolio \in RollPortfolios, pair \in RollPairs, day \in 0..MaxDay :
       fn_call = [fn |-> "simulate_monthly_roll",
                  args |-> [portfolio |-> portfolio, current_expiry |-> pair[1],
                            new_expiry |-> pair[2], day |-> day],
                  done |-> FALSE, ret |-> << >>]

ApplySimulateMonthlyRoll ==
  /\ fn_call.fn = "simulate_monthly_roll"
  /\ ~fn_call.done
  /\ LET portfolio == fn_call.args.portfolio
         r == RollAll([books |-> portfolio.books, positions |-> portfolio.positions,
                       rolling_executed |-> 0],
                      1, Len(portfolio.positions), fn_call.args.current_expiry,
                      fn_call.args.new_expiry, fn_call.args.day)
     IN  fn_call' = [fn_call EXCEPT
                       !.done = TRUE,
                       !.ret = [portfolio EXCEPT !.positions = r.positions,
                                                 !.books = r.books]]
  /\ UNCHANGED << botVars, strategyVars, schedulerVars, streamVars >>

\* Monthly rolls of drawn portfolios.
SpecRoll == RollInit /\ [][ApplySimulateMonthlyRoll]_vars

\* --------------------------------------------------------------- the scheduler

\* schedule.every()...do(job): the five jobs run_paper_trading_scheduler registers.
Jobs == { "daily_review", "quick_market_update", "export_learning_report",
          "generate_performance_chart", "check_monthly_roll" }

\* The one job whose body is not wrapped in try/except Exception.
RaisingJobs == { "check_monthly_roll" }

\* Mutant of MayStart: every collected job is started at once, in a thread of
\* its own.
MayStartThreaded(flight) == TRUE

\* schedule.run_pending() calls each collected job in the scheduler's own
\* thread and goes on to the next when it has returned.
MayStart(flight) == flight = {}

\* The quotes a job gets from the broker: none, or one full answer.
SchedulerFeeds ==
  { feed \in QuoteFeeds :
      \/ feed = << >>
      \/ Len(feed) = 4 /\ feed[1] = Quote("NIFTY25SEP24600CE", Rupees(400)) }

\* daily_review and quick_market_update: update_position_prices on live data;
\* with no market data, or the market closed, nothing is touched.
ReviewBody(job) ==
  /\ \E feed \in SchedulerFeeds :
       virtual_positions' =
         update_position_prices(virtual_positions, feed,
                                [nifty_price |-> PricedSpot, vix_level |-> PricedVix],
                                today, TRUE)
  /\ last_call' = Called(job, << >>, "None")
  /\ UNCHANGED << available_cash, invested_amount, trade_counter, trade_ledger,
                  total_trades, rolling_executed, instruments_cache, today, calls >>

\* check_monthly_roll: on the last Friday of the month, when a short position
\* expires in the month, simulate_monthly_roll to the 26th of the next month.
\* The calendar is not followed: whether the day is that Friday is drawn.
CheckMonthlyRollBody(job) ==
  \E last_friday \in BOOLEAN :
    LET expiring == { i \in 1..Len(virtual_positions) :
                        /\ virtual_positions[i].expiry = "2025-09-26"
                        /\ virtual_positions[i].quantity < 0 }
        r == IF last_friday /\ expiring # {}
             THEN RollAll([books |-> Books(available_cash, trade_counter,
                                           trade_ledger, total_trades),
                           positions |-> virtual_positions,
                           rolling_executed |-> rolling_executed],
                          1, Len(virtual_positions), "2025-09-26", "2025-10-26", today)
             ELSE [books |-> Books(available_cash, trade_counter,
                                   trade_ledger, total_trades),
                   positions |-> virtual_positions,
                   rolling_executed |-> rolling_executed]
    IN  /\ available_cash' = r.books.available_cash
        /\ trade_counter' = r.books.trade_counter
        /\ trade_ledger' = r.books.trade_ledger
        /\ total_trades' = r.books.total_trades
        /\ virtual_positions' = r.positions
        /\ rolling_executed' = r.rolling_executed
        /\ last_call' = Called(job, << >>, "None")
        /\ UNCHANGED << invested_amount, instruments_cache, today, calls >>

\* export_learning_report and generate_performance_chart read the database.
ReportBody(job) ==
  /\ last_call' = Called(job, << >>, "None")
  /\ UNCHANGED << available_cash, invested_amount, trade_counter, virtual_positions,
                  trade_ledger, total_trades, rolling_executed, instruments_cache,
                  today, calls >>

JobBody(job) ==
  IF job \in { "daily_review", "quick_market_update" } THEN ReviewBody(job)
  ELSE IF job = "check_monthly_roll" THEN CheckMonthlyRollBody(job)
  ELSE ReportBody(job)

\* main: initialize_paper_strategy has run when the scheduler is started.
SchedulerBotInit ==
  /\ available_cash = InitializedPortfolio.books.available_cash
  /\ invested_amount = InitializedPortfolio.invested_amount
  /\ trade_counter = InitializedPortfolio.books.trade_counter
  /\ virtual_positions = InitializedPortfolio.positions
  /\ trade_ledger = InitializedPortfolio.books.trade_ledger
  /\ total_trades = InitializedPortfolio.books.total_trades
  /\ rolling_executed = 0
  /\ instruments_cache = NfoInstruments
  /\ today = 0
  /\ calls = 0
  /\ last_call = Called("initialize_paper_strategy", << >>, "None")

SchedulerSpecInit ==
  /\ SchedulerBotInit
  /\ StrategyInit
  /\ SchedulerInit
  /\ StreamInit
  /\ FnIdle

\* run_paper_trading_scheduler registers the jobs and enters its loop with
\* the first schedule.run_pending(): no job is due yet.
RunPaperTradingScheduler ==
  /\ scheduler = "not_started"
  /\ scheduler' = "run_pending"
  /\ pending' = due
  /\ UNCHANGED << due, in_flight >>
  /\ UNCHANGED << botVars, strategyVars, fnVars, streamVars >>

\* Time passes and a job's next_run is reached, whatever the loop is doing.
BecomesDue ==
  /\ scheduler \in { "run_pending", "sleep" }
  /\ \E job \in Jobs \ due : due' = due \cup { job }
  /\ UNCHANGED << scheduler, pending, in_flight >>
  /\ UNCHANGED << botVars, strategyVars, fnVars, streamVars >>

\* time.sleep(60) returns and schedule.run_pending() collects the due jobs.
RunPending ==
  /\ scheduler = "sleep"
  /\ scheduler' = "run_pending"
  /\ pending' = due
  /\ UNCHANGED << due, in_flight >>
  /\ UNCHANGED << botVars, strategyVars, fnVars, streamVars >>

\* run_pending calls the next collected job.
StartJob ==
  /\ scheduler = "run_pending"
  /\ MayStart(in_flight)
  /\ \E job \in pending :
       /\ in_flight' = in_flight \cup { job }
       /\ pending' = pending \ { job }
  /\ UNCHANGED << scheduler, due >>
  /\ UNCHANGED << botVars, strategyVars, fnVars, streamVars >>

\* The job returns: its work is done and its next run is scheduled.
FinishJob ==
  /\ scheduler = "run_pending"
  /\ \E job \in in_flight :
       /\ JobBody(job)
       /\ in_flight' = in_flight \ { job }
       /\ due' = due \ { job }
  /\ UNCHANGED << scheduler, pending >>
  /\ UNCHANGED << strategyVars, fnVars, streamVars >>

\* The job raises: run_pending is left, except Exception logs the error and
\* sleeps; the job was not rescheduled and stays due.
JobRaises ==
  /\ scheduler = "run_pending"
  /\ \E job \in in_flight \cap RaisingJobs :
       /\ in_flight' = in_flight \ { job }
       /\ pending' = {}
       /\ scheduler' = "sleep"
  /\ UNCHANGED due
  /\ UNCHANGED << botVars, strategyVars, fnVars, streamVars >>

\* run_pending returns; time.sleep(60).
Sleep ==
  /\ scheduler = "run_pending"
  /\ pending = {}
  /\ in_flight = {}
  /\ scheduler' = "sleep"
  /\ UNCHANGED << due, pending, in_flight >>
  /\ UNCHANGED << botVars, strategyVars, fnVars, streamVars >>

\* except KeyboardInterrupt: break. The loop, and the job it was in, end.
KeyboardInterrupt ==
  /\ scheduler \in { "run_pending", "sleep" }
  /\ scheduler' = "stopped"
  /\ pending' = {}
  /\ in_flight' = {}
  /\ UNCHANGED due
  /\ UNCHANGED << botVars, strategyVars, fnVars, streamVars >>

SchedulerNext ==
  \/ RunPaperTradingScheduler
  \/ BecomesDue
  \/ RunPending
  \/ StartJob
  \/ FinishJob
  \/ JobRaises
  \/ Sleep
  \/ KeyboardInterrupt

\* The scheduler loop and the jobs it runs.
SpecScheduler == SchedulerSpecInit /\ [][SchedulerNext]_vars

\* ------------------------------------------------------------ trades applied

\* Prices per lot offered to execute_virtual_trade: below, at and above
\* brokerage_per_lot.
OfferedPrices == { Rupees(10), Rupees(20), Rupees(350), Rupees(8000) }

\* The bot's books when a trade arrives: as constructed, after
\* initialize_paper_strategy, and as constructed after a BUY of 25 lots at
\* 19975 that leaves 125 rupees of cash.
TradeBooks ==
  LET fresh == Books(total_virtual_capital, 1, << >>, 0)
  IN  { fresh, InitializedPortfolio.books,
        execute_virtual_trade(fresh, "BUY", "NIFTY26MAR24600CE", 25,
                              Rupees(19975), 0).books }

\* execute_virtual_trade is about to run on drawn books.
TradeInit ==
  /\ BotInit
  /\ StrategyInit
  /\ SchedulerInit
  /\ StreamInit
  /\ \E books \in TradeBooks, action \in TradeActions, symbol \in TradeSymbols,
        quantity \in TradeQuantities, price \in OfferedPrices, day \in 0..MaxDay :
       fn_call = [fn |-> "execute_virtual_trade",
                  args |-> [books |-> books, action |-> action, symbol |-> symbol,
                            quantity |-> quantity, price |-> price, day |-> day],
                  done |-> FALSE, ret |-> << >>]

ApplyExecuteVirtualTrade ==
  /\ fn_call.fn = "execute_virtual_trade"
  /\ ~fn_call.done
  /\ LET a == fn_call.args
     IN  fn_call' = [fn_call EXCEPT
                       !.done = TRUE,
                       !.ret = execute_virtual_trade(a.books, a.action, a.symbol,
                                                     a.quantity, a.price, a.day)]
  /\ UNCHANGED << botVars, strategyVars, schedulerVars, streamVars >>

\* Virtual trades on drawn books.
SpecTrade == TradeInit /\ [][ApplyExecuteVirtualTrade]_vars

\* ---------------------------------------------------------- the tick collector

\* self.max_ticks = 1000  # Stop after 1000 ticks
max_ticks == 1000

\* Ticks in one on_ticks callback, and callbacks the socket still delivers
\* after kws.close() was called and before on_close.
MaxBatch == 3
MaxLateCallbacks == 2

\* store_tick_data: one row is inserted into option_quotes.
store_tick_data(stored) == stored + 1

\* The loop of on_ticks over the n ticks left in the batch, on
\* s = [tick_count, stored_ticks, close_requested]: store, count, and at
\* max_ticks call self.kws.close() and break. Nothing is looked at before
\* the first tick is stored.
RECURSIVE on_ticks(_, _)
on_ticks(s, n) ==
  IF n = 0 THEN s
  ELSE LET counted == [s EXCEPT !.stored_ticks = store_tick_data(@),
                                !.tick_count = @ + 1]
       IN  IF counted.tick_count >= max_ticks
           THEN [counted EXCEPT !.close_requested = TRUE]
           ELSE on_ticks(counted, n - 1)

\* The ticker delivers a batch: the socket is open, whether or not close was
\* requested.
OnTicks ==
  /\ conn_open
  /\ close_requested => late_callbacks < MaxLateCallbacks
  /\ \E n \in 1..MaxBatch :
       LET s == on_ticks([tick_count |-> tick_count, stored_ticks |-> stored_ticks,
                          close_requested |-> close_requested], n)
       IN  /\ tick_count' = s.tick_count
           /\ stored_ticks' = s.stored_ticks
           /\ close_requested' = s.close_requested
  /\ late_callbacks' = IF close_requested THEN late_callbacks + 1 ELSE late_callbacks
  /\ UNCHANGED conn_open
  /\ UNCHANGED << botVars, strategyVars, fnVars, schedulerVars >>

\* on_close: the socket is closed, by kws.close() or by the other side;
\* self.conn.commit(); self.conn.close().
OnClose ==
  /\ conn_open
  /\ conn_open' = FALSE
  /\ UNCHANGED << tick_count, stored_ticks, close_requested, late_callbacks >>
  /\ UNCHANGED << botVars, strategyVars, fnVars, schedulerVars >>

StreamNext ==
  \/ OnTicks
  \/ OnClose

\* The tick collector.
SpecStream == Init /\ [][StreamNext]_vars

\* ------------------------------------------------------- the market status checker

\* Python's None, among values that are lists and strings.
None == << >>

\* seq[-1]
Last(seq) == seq[Len(seq)]

\* data[-1] on what get_historical_data returned: the last candle of a list
\* of candles, and of a message its last character, itself a string.
LastItem(fetched) ==
  IF fetched.success THEN Last(fetched.data) ELSE << Last(fetched.data) >>

\* Daily candles as the historical API lists them:
\* <<day, open, high, low, close, volume>>.
NiftyCandles == << << -2, 24500, 24700, 24450, 24600, 0 >>,
                   << -1, 24600, 24680, 24560, 24631, 0 >> >>
VixCandles == << << -2, 13, 14, 12, 13, 0 >>, << -1, 13, 13, 11, 12, 0 >> >>

\* The messages get_historical_data returns with False, as strings of
\* characters: "No data in response", "HTTP 403: denied", "Error: timed out".
ErrorMessages ==
  { << "N", "o", " ", "d", "a", "t", "a", " ", "i", "n", " ", "r", "e", "s", "p", "o", "n", "s", "e" >>,
    << "H", "T", "T", "P", " ", "4", "0", "3", ":", " ", "d", "e", "n", "i", "e", "d" >>,
    << "E", "r", "r", "o", "r", ":", " ", "t", "i", "m", "e", "d", " ", "o", "u", "t" >> }

\* get_historical_data returns (True, candles), the list possibly empty or
\* cut short, or (False, message).
Fetched(candles) ==
  { [success |-> TRUE, data |-> SubSeq(candles, 1, n)] : n \in 0..Len(candles) }
  \cup { [success |-> FALSE, data |-> message] : message \in ErrorMessages }

\* get_last_available_data, given what check_live_data_access and the two
\* calls of get_historical_data return. The name success is bound to the
\* NIFTY result and then bound again to the VIX result; the returned dict
\* reads it after both calls.
get_last_available_data(live_accessible, nifty, vix, yesterday) ==
  IF live_accessible THEN << "LIVE", None >>
  ELSE LET nifty_data == nifty.data
           vix_data   == vix.data
           success    == vix.success
       IN  << "HISTORICAL",
              [nifty |-> IF success /\ nifty_data # << >> THEN LastItem(nifty) ELSE None,
               vix   |-> IF success /\ vix_data # << >> THEN LastItem(vix) ELSE None,
               date  |-> yesterday] >>

\* get_last_available_data is about to run against drawn answers of the API.
HistoricalInit ==
  /\ BotInit
  /\ StrategyInit
  /\ SchedulerInit
  /\ StreamInit
  /\ \E live_accessible \in BOOLEAN, nifty \in Fetched(NiftyCandles),
        vix \in Fetched(VixCandles) :
       fn_call = [fn |-> "get_last_available_data",
                  args |-> [live_accessible |-> live_accessible, nifty |-> nifty,
                            vix |-> vix, yesterday |-> -1],
                  done |-> FALSE, ret |-> << >>]

ApplyGetLastAvailableData ==
  /\ fn_call.fn = "get_last_available_data"
  /\ ~fn_call.done
  /\ LET a == fn_call.args
     IN  fn_call' = [fn_call EXCEPT
                       !.done = TRUE,
                       !.ret = get_last_available_data(a.live_accessible, a.nifty,
                                                       a.vix, a.yesterday)]
  /\ UNCHANGED << botVars, strategyVars, schedulerVars, streamVars >>

\* The historical fallback on drawn answers.
SpecHistorical == HistoricalInit /\ [][ApplyGetLastAvailableData]_vars

\* ------------------------------------------------------------------- claims

RECURSIVE SumCashImpact(_)
SumCashImpact(ledger) ==
  IF ledger = << >> THEN 0
  ELSE ledger[1].cash_impact + SumCashImpact(Tail(ledger))

\* C1. Ledger conservation: every ledger entry's balance_after is the
\* preceding entry's balance_after (the starting cash for the first entry)
\* plus its own cash_impact, and available_cash is the last entry's
\* balance_after, which is the starting cash plus the sum of all cash_impact.
C1_LedgerConservation ==
  /\ \A i \in 1..Len(trade_ledger) :
       trade_ledger[i].balance_after =
         (IF i = 1 THEN total_virtual_capital ELSE trade_ledger[i - 1].balance_after)
         + trade_ledger[i].cash_impact
  /\ available_cash = IF trade_ledger = << >> THEN total_virtual_capital
                      ELSE trade_ledger[Len(trade_ledger)].balance_after
  /\ available_cash = total_virtual_capital + SumCashImpact(trade_ledger)

\* C1 witness: the six entries of the initialisation, accepted trades after
\* them, and a trade that was just rejected.
C1_Witness ==
  /\ Len(trade_ledger) > Len(strategy_positions)
  /\ last_call.op = "execute_virtual_trade"
  /\ last_call.ret = "False"

\* C2. Cash-impact formula: every recorded trade of quantity q at price p has
\* fee f = q * brokerage_per_lot, and cash_impact -(q*p + f) when it is a BUY
\* and q*p - f when it is a SELL, whichever operation recorded it.
C2_CashImpactFormula ==
  \A i \in 1..Len(trade_ledger) :
    LET e == trade_ledger[i]
    IN  /\ e.quantity >= 0
        /\ e.fees = e.quantity * brokerage_per_lot
        /\ e.action = "BUY" => e.cash_impact = -(e.quantity * e.price + e.fees)
        /\ e.action = "SELL" => e.cash_impact = e.quantity * e.price - e.fees

\* C2 witness: the ledger holds a purchase and a sale of the initialisation
\* and a sale entered directly with a negative quantity.
C2_Witness ==
  /\ Len(trade_ledger) > Len(strategy_positions)
  /\ \E i, j \in 1..Len(strategy_positions) :
       trade_ledger[i].action = "BUY" /\ trade_ledger[j].action = "SELL"
  /\ last_call.op = "execute_virtual_trade"
  /\ last_call.args[1] = "SELL"
  /\ last_call.args[3] < 0
  /\ last_call.ret = "True"

\* The step is a call of execute_virtual_trade with a BUY whose total cost,
\* value plus fees, is above the cash at hand.
BuyBeyondCash ==
  /\ last_call'.op = "execute_virtual_trade"
  /\ last_call'.args[1] = "BUY"
  /\ TotalValue(last_call'.args[3], last_call'.args[4]) + Fees(last_call'.args[3])
       > available_cash

\* On such a step nothing is booked.
NothingBooked ==
  /\ trade_ledger' = trade_ledger
  /\ available_cash' = available_cash
  /\ total_trades' = total_trades

\* C3 as stated: a BUY whose total cost exceeds the available cash fails with
\* InsufficientFundsError surfaced to the caller, and books nothing.
C3_RaisesInsufficientFunds ==
  [][BuyBeyondCash => last_call'.ret = "InsufficientFundsError" /\ NothingBooked]_vars

\* C3 as amended: a BUY whose total cost exceeds the available cash is
\* refused by returning False, and no ledger entry is appended and
\* available_cash and the total trade count are unchanged.
C3_RefusedBuyBooksNothing ==
  [][BuyBeyondCash => last_call'.ret = "False" /\ NothingBooked]_vars

\* C3 witness: a BUY was just refused with trades already in the ledger.
C3_Witness ==
  /\ last_call.op = "execute_virtual_trade"
  /\ last_call.args[1] = "BUY"
  /\ last_call.ret = "False"
  /\ trade_ledger # << >>

\* The entries a step appends to a ledger.
Appended(old, new) == SubSeq(new, Len(old) + 1, Len(new))

\* A change of cash comes with appended ledger entries of that cash impact.
Booked(cash, cash_after, ledger, ledger_after) ==
  cash_after # cash =>
    /\ Len(ledger_after) > Len(ledger)
    /\ SumCashImpact(Appended(ledger, ledger_after)) = cash_after - cash

\* C4. The ledger is the sole authority on cash: every change of the bot's
\* or of a strategy's available_cash happens together with appended ledger
\* entries whose cash_impact equals that change.
C4_LedgerSoleAuthority ==
  [][/\ Booked(available_cash, available_cash', trade_ledger, trade_ledger')
     /\ \A n \in StrategyNames :
          strategies[n].made =>
            Booked(strategies[n].available_cash, strategies'[n].available_cash,
                   engine_trade_ledger, engine_trade_ledger')]_vars

ErrorKinds == { "InvalidInputError", "InvalidStateError", "AlreadyInitializedError",
                "InsufficientFundsError", "DuplicateStrategyError",
                "NotYetValuedError" }

\* C5. A strategy's cash starts equal to its allocation, and for every
\* variant made with its configured allocation, after initialize_positions
\* either available_cash >= 0 or an error was surfaced to the caller.
C5_NeverSilentlyNegative ==
  \A n \in StrategyNames :
    LET st == strategies[n]
    IN  /\ st.made /\ st.inits = 0 => st.available_cash = st.strategy_allocation
        /\ ( /\ st.made
             /\ st.strategy_allocation = STRATEGY_ALLOCATIONS[n]
             /\ st.inits = 1
             /\ strategy_call.op = "initialize_positions"
             /\ strategy_call.args = << n >> )
           => st.available_cash >= 0 \/ strategy_call.ret \in ErrorKinds

\* C6. Initialization is a one-time transition: a second initialize call
\* (initialize_paper_strategy on the bot, initialize_positions on a strategy)
\* fails with AlreadyInitializedError and leaves positions, cash and ledger
\* as they were.
C6_SecondInitializeFails ==
  [][/\ ( last_call'.op = "initialize_paper_strategy" /\ virtual_positions # << >> )
        => /\ last_call'.ret = "AlreadyInitializedError"
           /\ virtual_positions' = virtual_positions
           /\ available_cash' = available_cash
           /\ trade_ledger' = trade_ledger
     /\ \A n \in StrategyNames :
          ( strategies[n].inits >= 1 /\ strategies'[n].inits > strategies[n].inits )
          => /\ strategy_call'.ret = "AlreadyInitializedError"
             /\ strategies'[n].positions = strategies[n].positions
             /\ strategies'[n].available_cash = strategies[n].available_cash]_vars

\* The step is a roll for an expiry of which a short position is already CLOSED.
RepeatedRoll ==
  /\ last_call'.op = "simulate_monthly_roll"
  /\ \E i \in 1..Len(virtual_positions) :
       /\ virtual_positions[i].status = "CLOSED"
       /\ virtual_positions[i].quantity < 0
       /\ virtual_positions[i].expiry = last_call'.args[1]

\* A CLOSED position stays CLOSED with the exit fields of its close.
ClosedIsFinal ==
  \A i \in 1..Len(virtual_positions) :
    virtual_positions[i].status = "CLOSED" =>
      /\ i <= Len(virtual_positions')
      /\ virtual_positions'[i].status = "CLOSED"
      /\ virtual_positions'[i].exit_price = virtual_positions[i].exit_price
      /\ virtual_positions'[i].exit_date = virtual_positions[i].exit_date

\* C7 as stated: closing an already CLOSED position raises InvalidStateError
\* on the second attempt and leaves its exit_price and exit_date unchanged.
C7_SecondCloseRaises ==
  [][/\ RepeatedRoll => last_call'.ret = "InvalidStateError"
     /\ ClosedIsFinal]_vars

\* C7 as amended: a repeated simulate_monthly_roll for the same expiry passes
\* over an already CLOSED position without raising, and no operation
\* re-closes a CLOSED position, alters its exit_price or exit_date, or
\* returns it to OPEN.
C7_ClosedIsFinal ==
  [][/\ RepeatedRoll => last_call'.ret = "None"
     /\ ClosedIsFinal]_vars

\* C7 witness: the roll was just repeated for the expiry of a position that
\* an earlier day's roll closed.
C7_Witness ==
  /\ last_call.op = "simulate_monthly_roll"
  /\ \E i \in 1..Len(virtual_positions) :
       /\ virtual_positions[i].status = "CLOSED"
       /\ virtual_positions[i].expiry = last_call.args[1]
       /\ virtual_positions[i].exit_date < today

\* C8. P&L formula and sign: an OPEN position's pnl is
\* (current_price - entry_price) * quantity; with current_price above
\* entry_price it is strictly positive for a long and strictly negative for
\* a short.
C8_PnlFormula ==
  \A i \in 1..Len(virtual_positions) :
    LET p == virtual_positions[i]
    IN  p.status = "OPEN" =>
          /\ p.pnl = (p.current_price - p.entry_price) * p.quantity
          /\ p.current_price > p.entry_price /\ p.quantity > 0 => p.pnl > 0
          /\ p.current_price > p.entry_price /\ p.quantity < 0 => p.pnl < 0

\* C8 witness: update_position_prices just ran and left a long and a short
\* position above their entry prices.
C8_Witness ==
  /\ last_call.op = "update_position_prices"
  /\ \E i, j \in 1..Len(virtual_positions) :
       LET p == virtual_positions[i]
           q == virtual_positions[j]
       IN  /\ p.status = "OPEN" /\ p.quantity > 0 /\ p.current_price > p.entry_price
           /\ p.pnl > 0
           /\ q.status = "OPEN" /\ q.quantity < 0 /\ q.current_price > q.entry_price
           /\ q.pnl < 0

\* C9. Once a position is CLOSED its pnl equals
\* (exit_price - entry_price) * quantity.
C9_ClosedPnlRealised ==
  \A i \in 1..Len(virtual_positions) :
    LET p == virtual_positions[i]
    IN  p.status = "CLOSED" => p.pnl = (p.exit_price - p.entry_price) * p.quantity

RECURSIVE OpenNotional(_, _)
OpenNotional(ps, n) ==
  IF n = 0 THEN 0
  ELSE OpenNotional(ps, n - 1)
       + (IF ps[n].status = "OPEN"
          THEN (IF ps[n].quantity < 0 THEN -ps[n].quantity ELSE ps[n].quantity)
               * ps[n].entry_price
          ELSE 0)

\* C10. Invested amount: get_invested_amount is the sum of
\* |quantity| * entry_price over the OPEN positions, CLOSED positions
\* contributing zero; long 25 at 1,100 plus short 25 at 350 gives 36,250.
C10_InvestedAmount ==
  ( fn_call.fn = "get_invested_amount" /\ fn_call.done ) =>
    /\ fn_call.ret = OpenNotional(fn_call.args, Len(fn_call.args))
    /\ ( /\ Len(fn_call.args) = 2
         /\ \A k \in 1..2 : fn_call.args[k].status = "OPEN"
         /\ fn_call.args[1].quantity = 25 /\ fn_call.args[1].entry_price = 1100
         /\ fn_call.args[2].quantity = -25 /\ fn_call.args[2].entry_price = 350 )
       => fn_call.ret = 36250

\* C10 witness: the amount was computed for an open short next to a closed
\* long.
C10_Witness ==
  /\ fn_call.fn = "get_invested_amount"
  /\ fn_call.done
  /\ Len(fn_call.args) = 2
  /\ fn_call.args[1].status = "CLOSED" /\ fn_call.args[1].quantity > 0
  /\ fn_call.args[2].status = "OPEN" /\ fn_call.args[2].quantity < 0
  /\ fn_call.ret = 25 * fn_call.args[2].entry_price

\* The sum of f over the positions at the indices in S.
RECURSIVE SumAt(_, _, _)
SumAt(positions, S, f) ==
  IF S = {} THEN 0
  ELSE LET i == CHOOSE j \in S : TRUE
       IN  positions[i][f] * (IF f = "pnl" THEN 1 ELSE positions[i].quantity)
           + SumAt(positions, S \ {i}, f)

OpenAt(positions) == { i \in 1..Len(positions) : positions[i].status = "OPEN" }

\* C11. Portfolio aggregation counts OPEN positions only: each portfolio
\* Greek is the sum of unit Greek * quantity over the OPEN positions,
\* total_pnl the sum of their pnl, open_positions their number; a CLOSED
\* position contributes nothing.
C11_MetricsOverOpenOnly ==
  ( fn_call.fn = "calculate_portfolio_metrics" /\ fn_call.done ) =>
    LET positions == fn_call.args.portfolio.positions
        open == OpenAt(positions)
    IN  /\ fn_call.ret.total_pnl = SumAt(positions, open, "pnl")
        /\ \A f \in { "delta", "gamma", "theta", "vega" } :
             fn_call.ret.portfolio_greeks[f] = SumAt(positions, open, f)
        /\ fn_call.ret.open_positions = Cardinality(open)

\* C11 witness: the metrics were computed over a portfolio holding a CLOSED
\* position with a pnl and a delta of its own, next to OPEN ones.
C11_Witness ==
  /\ fn_call.fn = "calculate_portfolio_metrics"
  /\ fn_call.done
  /\ fn_call.ret.open_positions > 0
  /\ fn_call.ret.portfolio_greeks.delta # 0
  /\ \E i \in 1..Len(fn_call.args.portfolio.positions) :
       LET p == fn_call.args.portfolio.positions[i]
       IN  p.status = "CLOSED" /\ p.pnl # 0 /\ p.delta # 0

\* update_position_prices has run on a drawn portfolio.
Updated == fn_call.fn = "update_position_prices" /\ fn_call.done

\* The quotes fetched for the position: those under its instrument key.
QuotesOf(position, feed) ==
  { k \in 1..Len(feed) : feed[k].key = position.tradingsymbol }

\* Some field other than the price, the Greeks and pnl marks the position.
StalenessFlagged(before, after) ==
  \E f \in DOMAIN after \ { "current_price", "delta", "gamma", "theta", "vega", "pnl" } :
    f \notin DOMAIN before \/ after[f] # before[f]

\* C12. Stale quote handling: when the fetched quotes hold no entry, or no
\* last_price, for an OPEN position, update_position_prices leaves its
\* current_price unchanged, sets a staleness flag on it, and does not treat
\* this as an error.
C12_StaleQuoteFlagged ==
  Updated =>
    \A i \in 1..Len(fn_call.args.portfolio.positions) :
      LET before == fn_call.args.portfolio.positions[i]
          feed == fn_call.args.feed
      IN  ( /\ before.status = "OPEN"
            /\ \A k \in QuotesOf(before, feed) : feed[k].kind = "no_last_price" )
          => /\ fn_call.ret[i].current_price = before.current_price
             /\ StalenessFlagged(before, fn_call.ret[i])
             /\ ~fn_call.error_logged

Greeks(position) ==
  [delta |-> position.delta, gamma |-> position.gamma,
   theta |-> position.theta, vega |-> position.vega]

\* C13. Degraded pricing keeps prior Greeks: when the Greek computation for
\* an unexpired position fails on invalid pricing inputs (spot, strike or
\* volatility <= 0), the revaluation leaves the position's delta, gamma,
\* theta and vega as they were.
C13_DegradedKeepsGreeks ==
  Updated =>
    \A i \in 1..Len(fn_call.args.portfolio.positions) :
      LET before == fn_call.args.portfolio.positions[i]
          a == fn_call.args
      IN  ( /\ before.status = "OPEN"
            /\ DaysToExpiry(before.expiry, a.day, a.after_midnight) > 0
            /\ PricingRaises(a.market_data.nifty_price, before.strike,
                             a.market_data.vix_level) )
          => Greeks(fn_call.ret[i]) = Greeks(before)

\* C14. One bad quote never blocks the rest: within one call, every OPEN
\* tracked position that has a quote gets the quoted price, and the pnl and
\* Greeks that go with it, whatever happened to the other positions.
C14_BadQuoteDoesNotBlock ==
  Updated =>
    \A k \in 1..Len(fn_call.args.feed) :
      LET a == fn_call.args
          q == a.feed[k]
          i == token_to_position(a.portfolio.positions, q.key)
      IN  ( q.kind = "quote" /\ i # 0 )
          => LET after == fn_call.ret[i]
             IN  /\ after.current_price = q.last_price
                 /\ after.pnl = (q.last_price - after.entry_price) * after.quantity
                 /\ Greeks(after) =
                      calculate_option_greeks(a.market_data.nifty_price, after.strike,
                                              after.expiry, after.option_type,
                                              a.market_data.vix_level, a.day,
                                              a.after_midnight)

\* The step is add_strategy under a name that is already registered.
AddsDuplicate ==
  /\ engine_call'.op = "add_strategy"
  /\ engine_call'.args[1] \in DOMAIN engine_strategies

\* C15. Duplicate registration: add_strategy with a name that is already
\* registered raises DuplicateStrategyError, and the first registration (the
\* strategy object and its recorded allocation) remains intact.
C15_DuplicateRejected ==
  [][AddsDuplicate =>
       /\ engine_call'.ret = "DuplicateStrategyError"
       /\ engine_strategies' = engine_strategies
       /\ strategy_allocations' = strategy_allocations]_vars

\* The allocation is above the per-strategy ceiling.
AboveCeiling(allocation) ==
  allocation * 100 > MAX_STRATEGY_ALLOCATION * engine_total_capital

\* C16. Allocation ceiling: add_strategy rejects an allocation above
\* MAX_STRATEGY_ALLOCATION (20% of total capital), neither accepting nor
\* clamping it, so no registered strategy has an allocation above the ceiling.
C16_CeilingEnforced ==
  [][/\ ( engine_call'.op = "add_strategy" /\ AboveCeiling(engine_call'.args[3]) )
        => /\ engine_call'.ret \in ErrorKinds
           /\ engine_strategies' = engine_strategies
           /\ strategy_allocations' = strategy_allocations
     /\ \A n \in DOMAIN strategy_allocations' :
          ~AboveCeiling(strategy_allocations'[n])]_vars

RebalanceOps == { "should_rebalance", "rebalance_strategy" }

\* The object as its constructor left it.
AsConstructed(st) == Strategy(st.name, st.total_capital, st.strategy_allocation)

C18_ProposalsFollowPredicate ==
  strategy_call.op = "rebalance_strategy" =>
    LET n == strategy_call.args[1]
        market_data == strategy_call.args[2]
    IN  (strategy_call.ret # << >>) = should_rebalance(strategies[n], market_data).ret

GreeksComputed == fn_call.fn = "calculate_option_greeks" /\ fn_call.done

\* The option of the call is past its expiry: time_to_expiry <= 0.
Expired ==
  /\ fn_call.args.expiry \in ParsableExpiries
  /\ DaysToExpiry(fn_call.args.expiry, fn_call.args.day, fn_call.args.after_midnight) <= 0

\* C19. Expired options carry no risk and are not an error: for an option
\* whose time to expiry is <= 0, calculate_option_greeks returns
\* delta = gamma = theta = vega = 0 without raising or logging an error, for
\* every spot, strike, option type and volatility, those <= 0 included.
C19_ExpiredIsZeroNotError ==
  ( GreeksComputed /\ Expired ) =>
    /\ \A option_type \in { "CE", "PE" } : fn_call.ret[option_type] = ZeroGreeks
    /\ ~fn_call.error_logged

\* C19 witness: the Greeks of an expired option were asked for with a spot
\* and a volatility that could not be priced.
C19_Witness ==
  /\ GreeksComputed
  /\ Expired
  /\ fn_call.args.spot <= 0
  /\ fn_call.args.vix <= 0
  /\ fn_call.ret["CE"] = ZeroGreeks

\* The call is priced: the expiry parses, lies ahead, and the inputs are valid.
Priced ==
  /\ fn_call.args.expiry \in ParsableExpiries
  /\ ~Expired
  /\ ~PricingRaises(fn_call.args.spot, fn_call.args.strike, fn_call.args.vix)

\* C20 as stated: for identical spot, strike, expiry, volatility and rate,
\* delta(CE) - delta(PE) = 1 (10000 in units of 1e-4).
C20_PutCallDelta ==
  GreeksComputed => fn_call.ret["CE"].delta - fn_call.ret["PE"].delta = 10000

\* C20 as amended: delta(CE) - delta(PE) = 1 when the option is unexpired and
\* the pricing inputs are valid; for an expired option, an expiry that does
\* not parse or a failed pricing both deltas are 0.
C20_PutCallDeltaWhenPriced ==
  GreeksComputed =>
    IF Priced
    THEN fn_call.ret["CE"].delta - fn_call.ret["PE"].delta = 10000
    ELSE fn_call.ret["CE"].delta = 0 /\ fn_call.ret["PE"].delta = 0

\* C20 witness: an unexpired option was priced, with a call delta between 0
\* and 1.
C20_Witness ==
  /\ GreeksComputed
  /\ Priced
  /\ fn_call.ret["CE"].delta > 0
  /\ fn_call.ret["CE"].delta < 10000
  /\ fn_call.ret["PE"].delta < 0

Rolled == fn_call.fn = "simulate_monthly_roll" /\ fn_call.done

\* The ledger entries one call appended.
AppendedBy(before, after) ==
  SubSeq(after.books.trade_ledger, Len(before.books.trade_ledger) + 1,
         Len(after.books.trade_ledger))

\* C21: simulate_monthly_roll appends exactly two ledger entries for every
\* position it rolls, and every position it marks CLOSED has its closing BUY,
\* at the exit price, among the entries appended, debited from cash.
C21_RollIsTwoEntries ==
  Rolled =>
    LET before   == fn_call.args.portfolio
        after    == fn_call.ret
        appended == AppendedBy(before, after)
        closed   == { i \in 1..Len(before.positions) :
                        /\ before.positions[i].status = "OPEN"
                        /\ after.positions[i].status = "CLOSED" }
    IN  /\ Len(appended) = 2 * Cardinality(closed)
        /\ \A i \in closed :
             \E k \in 1..Len(appended) :
               /\ appended[k].action = "BUY"
               /\ appended[k].symbol = after.positions[i].symbol
               /\ appended[k].price = after.positions[i].exit_price
               /\ appended[k].cash_impact < 0

\* C22: time to expiry counts whole calendar days from the valuation date to
\* the expiry date, so the Greeks do not depend on the time of day of the
\* valuation, and they are forced to zero as for an expired option only when
\* the expiry date is on or before the valuation date.
C22_ExpiredOnlyOnOrAfterExpiryDate ==
  ( /\ GreeksComputed
    /\ fn_call.args.expiry \in ParsableExpiries
    /\ fn_call.args.vix = PricedVix
    /\ ~PricingRaises(fn_call.args.spot, fn_call.args.strike, fn_call.args.vix) ) =>
    LET a == fn_call.args
    IN  \A option_type \in { "CE", "PE" } :
          /\ fn_call.ret[option_type] =
               calculate_option_greeks(a.spot, a.strike, a.expiry, option_type,
                                       a.vix, a.day, FALSE)
          /\ fn_call.ret[option_type] = ZeroGreeks <=> ExpiryDay(a.expiry) <= a.day

\* The operations that read or mutate positions, cash or the ledger.
Operations == Jobs

\* C23: single-writer discipline. The jobs the scheduler triggers run one at
\* a time: at most one of them is in flight, a job is started only when none
\* is in flight, and the positions, the cash and the ledger change only with
\* the return of the one job in flight.
C23_SingleWriter ==
  [][ /\ Cardinality(in_flight \cap Operations) <= 1
      /\ in_flight' \ in_flight # {} => in_flight = {}
      /\ << virtual_positions, available_cash, trade_ledger >>' #
           << virtual_positions, available_cash, trade_ledger >>
         => Cardinality(in_flight) = 1 /\ in_flight' = {} ]_vars

\* C23 witness: check_monthly_roll is running, has rolled nothing yet, and
\* daily_review and quick_market_update are both due and waiting for it.
C23_Witness ==
  /\ in_flight = { "check_monthly_roll" }
  /\ { "daily_review", "quick_market_update" } \subseteq pending
  /\ { "daily_review", "quick_market_update" } \subseteq due
  /\ \E i \in 1..Len(virtual_positions) : virtual_positions[i].pnl # 0

\* C24: execute_virtual_trade never drives cash negative: when available_cash
\* is >= 0 before the call it is >= 0 after it, for every action, quantity
\* and price, a SELL below brokerage_per_lot included.
C24_CashNeverNegative ==
  ( /\ fn_call.fn = "execute_virtual_trade"
    /\ fn_call.done
    /\ fn_call.args.books.available_cash >= 0 ) =>
    fn_call.ret.books.available_cash >= 0

\* C25: tick collection stops after max_ticks: whatever the callbacks and
\* their batch sizes, callbacks delivered after close was requested included,
\* tick_count never exceeds max_ticks and at most max_ticks ticks are stored.
C25_StopsAtMaxTicks ==
  /\ tick_count <= max_ticks
  /\ stored_ticks <= max_ticks

\* The ledger entry k records the opening of position p.
Opens(k, p) ==
  /\ trade_ledger[k].symbol = p.symbol
  /\ trade_ledger[k].action = (IF p.quantity > 0 THEN "BUY" ELSE "SELL")
  /\ trade_ledger[k].quantity = Abs(p.quantity)
  /\ trade_ledger[k].price = p.entry_price
  /\ trade_ledger[k].date = p.entry_date

\* C26: audit linkage of trade ids. Trade ids are pairwise distinct among
\* the positions and pairwise distinct among the ledger entries, and every
\* position carries the trade id of the ledger entry that opened it.
C26_TradeIdsLinked ==
  /\ \A i, j \in 1..Len(virtual_positions) :
       i # j => virtual_positions[i].trade_id # virtual_positions[j].trade_id
  /\ \A i, j \in 1..Len(trade_ledger) :
       i # j => trade_ledger[i].trade_id # trade_ledger[j].trade_id
  /\ \A i \in 1..Len(virtual_positions) :
       \E k \in 1..Len(trade_ledger) :
         /\ Opens(k, virtual_positions[i])
         /\ trade_ledger[k].trade_id = virtual_positions[i].trade_id

\* C27: every priced position is revalued. After update_position_prices has
\* run without an error, every OPEN position whose tradingsymbol the fetched
\* quotes price carries the quoted price and the pnl and Greeks that go with
\* it: positions appended by a roll and positions sharing a tradingsymbol
\* with another OPEN position included.
C27_EveryPricedPositionRevalued ==
  ( Updated /\ ~fn_call.error_logged ) =>
    \A i \in 1..Len(fn_call.args.portfolio.positions) :
      LET a == fn_call.args
          before == a.portfolio.positions[i]
          after == fn_call.ret[i]
      IN  before.status = "OPEN" =>
            \A k \in QuotesOf(before, a.feed) :
              a.feed[k].kind = "quote" =>
                /\ after.current_price = a.feed[k].last_price
                /\ after.pnl = (a.feed[k].last_price - after.entry_price) * after.quantity
                /\ Greeks(after) =
                     calculate_option_greeks(a.market_data.nifty_price, after.strike,
                                             after.expiry, after.option_type,
                                             a.market_data.vix_level, a.day,
                                             a.after_midnight)

\* calculate_portfolio_metrics has run on a revalued portfolio.
Measured == fn_call.fn = "calculate_portfolio_metrics" /\ fn_call.done

\* The sum of quantity * current_price over the OPEN positions from i on.
RECURSIVE MarkToMarket(_, _)
MarkToMarket(positions, i) ==
  IF i > Len(positions) THEN 0
  ELSE (IF positions[i].status = "OPEN"
        THEN positions[i].quantity * positions[i].current_price ELSE 0)
       + MarkToMarket(positions, i + 1)

\* C28: portfolio value is mark-to-market equity: the portfolio_value that
\* calculate_portfolio_metrics returns equals available_cash plus the sum of
\* quantity * current_price over the OPEN positions, after initialization,
\* price updates and monthly rolls alike.
C28_ValueIsMarkToMarket ==
  Measured =>
    fn_call.ret.portfolio_value =
      fn_call.args.portfolio.books.available_cash
        + MarkToMarket(fn_call.args.portfolio.positions, 1)

\* C29: opening positions conserves strategy value: right after a strategy's
\* first initialize_positions, its cash balance plus its invested amount, the
\* 'Current Value' of the daily report, equals its allocation, with and
\* without short positions among those opened.
C29_OpeningConservesValue ==
  \A n \in StrategyNames :
    LET st == strategies[n]
    IN  ( /\ st.made
          /\ st.inits = 1
          /\ strategy_call.op = "initialize_positions"
          /\ strategy_call.args = << n >> )
        => st.available_cash + get_invested_amount(st.positions)
             = st.strategy_allocation

\* What a field of the fallback may hold: the last candle of its own
\* instrument's response, None when there is none.
LastCandle(fetched) ==
  IF fetched.success /\ fetched.data # << >> THEN Last(fetched.data) ELSE None

\* C30: the historical fallback returns only real candles. In HISTORICAL
\* mode the 'nifty' field is the last candle of the NIFTY response, or None
\* when that fetch failed or brought no candle, and the 'vix' field likewise
\* for the VIX response, for every combination of success and failure: no
\* field comes from an error message or from the other instrument's outcome.
C30_OnlyRealCandles ==
  ( /\ fn_call.fn = "get_last_available_data"
    /\ fn_call.done
    /\ fn_call.ret[1] = "HISTORICAL" ) =>
    /\ fn_call.ret[2].nifty = LastCandle(fn_call.args.nifty)
    /\ fn_call.ret[2].vix = LastCandle(fn_call.args.vix)

====
